---- MODULE Spec2Model ----
(***************************************************************************)
(* Restaurant table reservation engine: booking ledger, table catalog,     *)
(* availability cache and waitlist, as implemented by ReservationService,  *)
(* TableService, CacheService, WaitlistService and ReservationController.  *)
(*                                                                         *)
(* Representation.  A wall-clock string "HH:MM" is the pair <<h, m>>; a    *)
(* date string is a day number (0 stands for an absent/empty value, which  *)
(* JavaScript treats as falsy in `dto.x || old.x`); an absent table id is  *)
(* the empty string; an absent time is the empty tuple.  A reservation id  *)
(* is its index in the ledger, a waitlist id its index in the waitlist.    *)
(***************************************************************************)
EXTENDS Integers, Sequences, FiniteSets, TLC

VARIABLES
    restaurant,     \* the restaurant row (operating hours, active flag)
    tables,         \* table id -> table row
    reservations,   \* the booking ledger, a sequence of reservation rows
    cache,          \* availability cache: key -> cached AvailabilityResult
    waitlist,       \* sequence of waitlist rows
    offers,         \* waitlist id -> number of slot offers sent to it
    last,           \* outcome of the most recently finished request
    pc,             \* per request handler: the await point it is parked at
    local,          \* per request handler: its in-memory entity and inputs
    recurring,      \* sequence of recurring-series rows
    today           \* the current date, as new Date() reads it

vars ==
    <<restaurant, tables, reservations, cache, waitlist, offers, last, pc, local,
      recurring, today>>

(***************************************************************************)
(* Bounds of the model                                                     *)
(***************************************************************************)
MaxReservations == 2

MaxWaitlist == 3

(***************************************************************************)
(* Program constants                                                       *)
(***************************************************************************)
PeakStart == 18

PeakEnd == 21

MaxPeakDuration == 90

SlotInterval == 30

NoTime == <<>>

Procs == {"h1", "h2"}

ActiveStatuses == {"pending", "confirmed", "seated"}

TerminalStatuses == {"completed", "cancelled", "no_show"}

ReservationStatus == ActiveStatuses \cup TerminalStatuses

WaitlistStatus == {"waiting", "notified", "seated", "expired", "cancelled"}

(***************************************************************************)
(* The data the model starts from: one restaurant row out of two shapes of *)
(* operating hours, and a table catalog.                                   *)
(***************************************************************************)
DayRestaurant ==
    [id |-> "r1", openingTime |-> <<10, 0>>, closingTime |-> <<22, 0>>, isActive |-> TRUE,
     totalTables |-> 3]

NightRestaurant ==
    [id |-> "r1", openingTime |-> <<18, 0>>, closingTime |-> <<2, 0>>, isActive |-> TRUE,
     totalTables |-> 3]

Catalog ==
    [t1 |-> [restaurantId |-> "r1", capacity |-> 2, minCapacity |-> 1, isActive |-> TRUE],
     t2 |-> [restaurantId |-> "r1", capacity |-> 4, minCapacity |-> 2, isActive |-> TRUE],
     t3 |-> [restaurantId |-> "r1", capacity |-> 4, minCapacity |-> 1, isActive |-> TRUE],
     t4 |-> [restaurantId |-> "r1", capacity |-> 2, minCapacity |-> 1, isActive |-> FALSE],
     t5 |-> [restaurantId |-> "r2", capacity |-> 2, minCapacity |-> 1, isActive |-> TRUE]]

(***************************************************************************)
(* Time utilities                                                          *)
(***************************************************************************)
MinOf(a, b) == IF a <= b THEN a ELSE b

toMinutes(time) == time[1] * 60 + time[2]

toTimeString(minutes) == <<(minutes \div 60) % 24, minutes % 60>>

calculateEndTime(startTime, durationMinutes) ==
    LET totalMinutes == startTime[1] * 60 + startTime[2] + durationMinutes
        endHours == (totalMinutes \div 60) % 24
        endMinutes == totalMinutes % 60
    IN  <<endHours, endMinutes>>

timeRangesOverlap(start1, end1, start2, end2) ==
    LET s1 == toMinutes(start1)
        e1 == toMinutes(end1)
        s2 == toMinutes(start2)
        e2 == toMinutes(end2)
    IN  s1 < e2 /\ s2 < e1

isTimeRangeValid(rest, startTime, endTime) ==
    LET startValue == toMinutes(startTime)
        endValue == toMinutes(endTime)
        openingValue == toMinutes(rest.openingTime)
        closingValue == toMinutes(rest.closingTime)
    IN  IF closingValue < openingValue
        THEN /\ (startValue >= openingValue \/ startValue < closingValue)
             /\ (endValue >= openingValue \/ endValue <= closingValue)
        ELSE startValue >= openingValue /\ endValue <= closingValue

adjustDurationForPeakHoursNoCap(startTime, durationMinutes) == durationMinutes

adjustDurationForPeakHours(startTime, durationMinutes) ==
    LET hours == startTime[1]
    IN  IF hours >= PeakStart /\ hours < PeakEnd
        THEN MinOf(durationMinutes, MaxPeakDuration)
        ELSE durationMinutes

(***************************************************************************)
(* Entities                                                                *)
(***************************************************************************)
canAccommodate(table, partySize) ==
    partySize >= table.minCapacity /\ partySize <= table.capacity

canBeCancelledAlsoSeated(r) == r.status \in {"pending", "confirmed", "seated"}

canBeCancelled(r) == r.status \in {"pending", "confirmed"}

canBeModified(r) == r.status \in {"pending", "confirmed"}

canBeNotifiedOrNotified(w) == w.status \in {"waiting", "notified"}

canBeNotified(w) == w.status = "waiting"

isValid(w) == w.status \in {"waiting", "notified"}

(***************************************************************************)
(* Resource catalog                                                        *)
(***************************************************************************)
SeqsOver(S) == {s \in [1..Cardinality(S) -> S] : \A i, j \in DOMAIN s : i # j => s[i] # s[j]}

EligibleTables(restaurantId, partySize) ==
    {t \in DOMAIN tables :
        /\ tables[t].restaurantId = restaurantId
        /\ tables[t].isActive = TRUE
        /\ tables[t].capacity >= partySize
        /\ tables[t].minCapacity <= partySize}

\* The result lists the storage may return: ORDER BY capacity ASC leaves the
\* order of tables of equal capacity open.
findTablesForPartySizeDesc(restaurantId, partySize) ==
    {s \in SeqsOver(EligibleTables(restaurantId, partySize)) :
        \A i, j \in DOMAIN s : i < j => tables[s[i]].capacity >= tables[s[j]].capacity}

findTablesForPartySize(restaurantId, partySize) ==
    {s \in SeqsOver(EligibleTables(restaurantId, partySize)) :
        \A i, j \in DOMAIN s : i < j => tables[s[i]].capacity <= tables[s[j]].capacity}

(***************************************************************************)
(* Booking ledger: conflict detection                                      *)
(***************************************************************************)
isTableAvailable(ledger, tableId, date, startTime, endTime, excludeReservationId) ==
    LET found == {i \in DOMAIN ledger :
                    /\ ledger[i].tableId = tableId
                    /\ ledger[i].reservationDate = date
                    /\ ledger[i].status \in {"pending", "confirmed", "seated"}
                    /\ (excludeReservationId # 0 => i # excludeReservationId)}
    IN  ~ \E i \in found :
            timeRangesOverlap(ledger[i].startTime, ledger[i].endTime, startTime, endTime)

findAvailableTable(suitableTables, ledger, date, startTime, endTime) ==
    LET free == {i \in DOMAIN suitableTables :
                    isTableAvailable(ledger, suitableTables[i], date, startTime, endTime, 0)}
    IN  IF free = {}
        THEN ""
        ELSE suitableTables[CHOOSE i \in free : \A j \in free : i <= j]

(***************************************************************************)
(* Availability cache                                                      *)
(***************************************************************************)
getAvailabilityKey(restaurantId, date, partySize, durationMinutes) ==
    <<restaurantId, date, partySize, durationMinutes>>

invalidateAvailability(c, restaurantId, date) ==
    [k \in {k \in DOMAIN c : ~(k[1] = restaurantId /\ k[2] = date)} |-> c[k]]

setAvailability(c, key, data) ==
    [k \in DOMAIN c \cup {key} |-> IF k = key THEN data ELSE c[k]]

(***************************************************************************)
(* Waitlist queries                                                        *)
(***************************************************************************)
WaitingEntriesForSlot(wl, restaurantId, date, startTime, endTime, partySize) ==
    {i \in DOMAIN wl :
        /\ wl[i].restaurantId = restaurantId
        /\ wl[i].requestedDate = date
        /\ wl[i].status = "waiting"
        /\ toMinutes(wl[i].preferredStartTime) <= toMinutes(startTime)
        /\ toMinutes(wl[i].preferredEndTime) >= toMinutes(endTime)
        /\ (partySize # 0 => wl[i].partySize <= partySize)}

getWaitingEntriesForSlotNewestFirst(wl, restaurantId, date, startTime, endTime, partySize) ==
    LET found == WaitingEntriesForSlot(wl, restaurantId, date, startTime, endTime, partySize)
    IN  CHOOSE s \in SeqsOver(found) :
            \A i, j \in DOMAIN s : i < j => wl[s[i]].createdAt >= wl[s[j]].createdAt

\* ... ORDER BY waitlist.createdAt ASC
getWaitingEntriesForSlot(wl, restaurantId, date, startTime, endTime, partySize) ==
    LET found == WaitingEntriesForSlot(wl, restaurantId, date, startTime, endTime, partySize)
    IN  CHOOSE s \in SeqsOver(found) :
            \A i, j \in DOMAIN s : i < j => wl[s[i]].createdAt <= wl[s[j]].createdAt

\* The entry processWaitlistForCancellation picks: waitingEntries[0], or 0 for none.
WaitlistHead(wl, restaurantId, date, startTime, endTime, tableCapacity) ==
    LET waitingEntries ==
            getWaitingEntriesForSlot(wl, restaurantId, date, startTime, endTime, tableCapacity)
    IN  IF Len(waitingEntries) = 0 THEN 0 ELSE waitingEntries[1]

\* notifyAvailability run to its end on entry id: the row it saves.
Notified(w) ==
    [w EXCEPT !.status = "notified", !.notificationCount = @ + 1]

\* processWaitlistForCancellation run to its end, with no other request in between.
processWaitlistForCancellation(wl, restaurantId, date, startTime, endTime, tableCapacity) ==
    LET entry == WaitlistHead(wl, restaurantId, date, startTime, endTime, tableCapacity)
    IN  IF entry = 0 \/ ~canBeNotified(wl[entry])
        THEN wl
        ELSE [wl EXCEPT ![entry] = Notified(wl[entry])]

OffersAfterPromotion(wl, of, restaurantId, date, startTime, endTime, tableCapacity) ==
    LET entry == WaitlistHead(wl, restaurantId, date, startTime, endTime, tableCapacity)
    IN  IF entry = 0 \/ ~canBeNotified(wl[entry])
        THEN of
        ELSE [of EXCEPT ![entry] = @ + 1]

(***************************************************************************)
(* ReservationService.create                                               *)
(***************************************************************************)
Outcome(code, reason, tableId) == [code |-> code, reason |-> reason, tableId |-> tableId]

\* The decision of create: the response code and, on success, the table.
\* suitableTables is the list findTablesForPartySize returned, ledger the
\* reservation rows the availability query read.
CreateResult(dto, suitableTables, ledger) ==
    LET endTime == calculateEndTime(dto.startTime, dto.durationMinutes)
        adjustedDuration == adjustDurationForPeakHours(dto.startTime, dto.durationMinutes)
        availableTable ==
            findAvailableTable(suitableTables, ledger, dto.reservationDate, dto.startTime, endTime)
    IN  IF ~restaurant.isActive
        THEN Outcome(400, "restaurant_inactive", "")
        ELSE IF ~isTimeRangeValid(restaurant, dto.startTime, endTime)
        THEN Outcome(400, "operating_hours", "")
        ELSE IF adjustedDuration # dto.durationMinutes
        THEN Outcome(400, "peak_hours", "")
        ELSE IF dto.tableId = ""
        THEN IF availableTable = ""
             THEN Outcome(409, "suggest_waitlist", "")
             ELSE Outcome(201, "ok", availableTable)
        ELSE IF dto.tableId \notin DOMAIN tables
        THEN Outcome(404, "table_not_found", "")
        ELSE IF tables[dto.tableId].restaurantId # dto.restaurantId
        THEN Outcome(400, "wrong_restaurant", "")
        ELSE IF ~canAccommodate(tables[dto.tableId], dto.partySize)
        THEN Outcome(400, "capacity", "")
        ELSE IF ~isTableAvailable(ledger, dto.tableId, dto.reservationDate,
                                  dto.startTime, endTime, 0)
        THEN Outcome(409, "table_conflict", "")
        ELSE Outcome(201, "ok", dto.tableId)

NewReservation(dto, tableId) ==
    [restaurantId |-> dto.restaurantId,
     tableId |-> tableId,
     partySize |-> dto.partySize,
     reservationDate |-> dto.reservationDate,
     startTime |-> dto.startTime,
     endTime |-> calculateEndTime(dto.startTime, dto.durationMinutes),
     durationMinutes |-> dto.durationMinutes,
     status |-> "pending"]

Done(op, id, code, reason) == [op |-> op, id |-> id, code |-> code, reason |-> reason]

\* The ledger holds at most MaxReservations rows: a create that would add one
\* more is not issued; a create that is rejected always is.
Create(dto) ==
    \E suitableTables \in findTablesForPartySize(dto.restaurantId, dto.partySize) :
         LET res == CreateResult(dto, suitableTables, reservations)
         IN  /\ res.code = 201 => Len(reservations) < MaxReservations
             /\ UNCHANGED <<restaurant, tables, recurring, today, waitlist, offers, pc, local>>
             /\ reservations' =
                    IF res.code = 201
                    THEN Append(reservations, NewReservation(dto, res.tableId))
                    ELSE reservations
             /\ cache' =
                    IF res.code = 201
                    THEN invalidateAvailability(cache, dto.restaurantId, dto.reservationDate)
                    ELSE cache
             /\ last' = Done("create", IF res.code = 201 THEN Len(reservations) + 1 ELSE 0,
                             res.code, res.reason)

(***************************************************************************)
(* ReservationService.update                                               *)
(***************************************************************************)
\* The row after Object.assign(reservation, {...dto, startTime, endTime, durationMinutes}).
Assigned(reservation, dto) ==
    LET startTime == IF dto.startTime # NoTime THEN dto.startTime ELSE reservation.startTime
        durationMinutes ==
            IF dto.durationMinutes # 0 THEN dto.durationMinutes ELSE reservation.durationMinutes
    IN  [reservation EXCEPT
            !.tableId = IF dto.tableId # "" THEN dto.tableId ELSE @,
            !.partySize = IF dto.partySize # 0 THEN dto.partySize ELSE @,
            !.reservationDate = IF dto.reservationDate # 0 THEN dto.reservationDate ELSE @,
            !.startTime = startTime,
            !.endTime = calculateEndTime(startTime, durationMinutes),
            !.durationMinutes = durationMinutes]

\* reservation is the row findById loaded, ledger the rows the availability query read.
UpdateResult(id, reservation, dto, ledger) ==
    LET new == Assigned(reservation, dto)
        adjustedDuration == adjustDurationForPeakHours(new.startTime, new.durationMinutes)
    IN  IF ~canBeModified(reservation)
        THEN Outcome(400, "cannot_modify", "")
        ELSE IF ~isTimeRangeValid(restaurant, new.startTime, new.endTime)
        THEN Outcome(400, "operating_hours", "")
        ELSE IF adjustedDuration # new.durationMinutes
        THEN Outcome(400, "peak_hours", "")
        ELSE IF dto.tableId # "" \/ dto.startTime # NoTime
                \/ dto.durationMinutes # 0 \/ dto.reservationDate # 0
        THEN IF new.tableId \notin DOMAIN tables
             THEN Outcome(404, "table_not_found", "")
             ELSE IF ~canAccommodate(tables[new.tableId], new.partySize)
             THEN Outcome(400, "capacity", "")
             ELSE IF ~isTableAvailable(ledger, new.tableId, new.reservationDate,
                                       new.startTime, new.endTime, id)
             THEN Outcome(409, "table_conflict", "")
             ELSE Outcome(200, "ok", new.tableId)
        ELSE Outcome(200, "ok", new.tableId)

\* The two invalidations at the end of update; the second one compares the
\* requested date with the date of the row that Object.assign has already changed.
InvalidateAfterUpdate(c, saved, dto) ==
    LET c1 == invalidateAvailability(c, saved.restaurantId,
                                     IF dto.reservationDate # 0 THEN dto.reservationDate
                                     ELSE saved.reservationDate)
    IN  IF dto.reservationDate # 0 /\ dto.reservationDate # saved.reservationDate
        THEN invalidateAvailability(c1, saved.restaurantId, saved.reservationDate)
        ELSE c1

Update(id, dto) ==
    /\ id \in DOMAIN reservations
    /\ LET res == UpdateResult(id, reservations[id], dto, reservations)
           saved == Assigned(reservations[id], dto)
       IN  /\ reservations' =
                  IF res.code = 200 THEN [reservations EXCEPT ![id] = saved] ELSE reservations
           /\ cache' = IF res.code = 200 THEN InvalidateAfterUpdate(cache, saved, dto) ELSE cache
           /\ last' = Done("update", id, res.code, res.reason)
    /\ UNCHANGED <<restaurant, tables, recurring, today, waitlist, offers, pc, local>>

(***************************************************************************)
(* TableService.deactivate: the table is saved inactive and the restaurant *)
(* counts its active tables again.                                         *)
(***************************************************************************)
\* restaurant.tables.filter((t) => t.isActive).length
updateTableCount(rest, catalog) ==
    [rest EXCEPT !.totalTables =
        Cardinality({t \in DOMAIN catalog :
                        catalog[t].restaurantId = rest.id /\ catalog[t].isActive})]

Deactivate(id) ==
    /\ id \in DOMAIN tables
    /\ tables' = [tables EXCEPT ![id].isActive = FALSE]
    /\ restaurant' = IF tables[id].restaurantId = restaurant.id
                     THEN updateTableCount(restaurant, tables')
                     ELSE restaurant
    /\ last' = Done("table_deactivate", 0, 200, id)
    /\ UNCHANGED <<recurring, today, reservations, cache, waitlist, offers, pc, local>>

(***************************************************************************)
(* Lifecycle transitions.  cancel and markAsNoShow are the controller's    *)
(* handlers: the service call followed by the waitlist promotion for the   *)
(* freed slot.                                                             *)
(***************************************************************************)
Cancel(id) ==
    /\ id \in DOMAIN reservations
    /\ LET reservation == reservations[id]
           table == tables[reservation.tableId]
       IN  IF ~canBeCancelled(reservation)
           THEN /\ last' = Done("cancel", id, 400, "cannot_cancel")
                /\ UNCHANGED <<reservations, cache, waitlist, offers>>
           ELSE /\ reservations' = [reservations EXCEPT ![id].status = "cancelled"]
                /\ cache' = invalidateAvailability(cache, reservation.restaurantId,
                                                   reservation.reservationDate)
                /\ waitlist' = processWaitlistForCancellation(waitlist,
                                    reservation.restaurantId, reservation.reservationDate,
                                    reservation.startTime, reservation.endTime, table.capacity)
                /\ offers' = OffersAfterPromotion(waitlist, offers,
                                    reservation.restaurantId, reservation.reservationDate,
                                    reservation.startTime, reservation.endTime, table.capacity)
                /\ last' = Done("cancel", id, 200, "ok")
    /\ UNCHANGED <<restaurant, tables, recurring, today, pc, local>>

Confirm(id) ==
    /\ id \in DOMAIN reservations
    /\ IF reservations[id].status # "pending"
       THEN /\ last' = Done("confirm", id, 400, "not_pending")
            /\ UNCHANGED reservations
       ELSE /\ reservations' = [reservations EXCEPT ![id].status = "confirmed"]
            /\ last' = Done("confirm", id, 200, "ok")
    /\ UNCHANGED <<restaurant, tables, recurring, today, cache, waitlist, offers, pc, local>>

MarkAsSeated(id) ==
    /\ id \in DOMAIN reservations
    /\ IF reservations[id].status # "confirmed"
       THEN /\ last' = Done("seat", id, 400, "not_confirmed")
            /\ UNCHANGED reservations
       ELSE /\ reservations' = [reservations EXCEPT ![id].status = "seated"]
            /\ last' = Done("seat", id, 200, "ok")
    /\ UNCHANGED <<restaurant, tables, recurring, today, cache, waitlist, offers, pc, local>>

MarkAsCompleted(id) ==
    /\ id \in DOMAIN reservations
    /\ IF reservations[id].status # "seated"
       THEN /\ last' = Done("complete", id, 400, "not_seated")
            /\ UNCHANGED reservations
       ELSE /\ reservations' = [reservations EXCEPT ![id].status = "completed"]
            /\ last' = Done("complete", id, 200, "ok")
    /\ UNCHANGED <<restaurant, tables, recurring, today, cache, waitlist, offers, pc, local>>

MarkAsNoShow(id) ==
    /\ id \in DOMAIN reservations
    /\ LET reservation == reservations[id]
           table == tables[reservation.tableId]
       IN  IF reservation.status \notin {"pending", "confirmed"}
           THEN /\ last' = Done("no_show", id, 400, "not_pending_or_confirmed")
                /\ UNCHANGED <<reservations, cache, waitlist, offers>>
           ELSE /\ reservations' = [reservations EXCEPT ![id].status = "no_show"]
                /\ cache' = invalidateAvailability(cache, reservation.restaurantId,
                                                   reservation.reservationDate)
                /\ waitlist' = processWaitlistForCancellation(waitlist,
                                    reservation.restaurantId, reservation.reservationDate,
                                    reservation.startTime, reservation.endTime, table.capacity)
                /\ offers' = OffersAfterPromotion(waitlist, offers,
                                    reservation.restaurantId, reservation.reservationDate,
                                    reservation.startTime, reservation.endTime, table.capacity)
                /\ last' = Done("no_show", id, 200, "ok")
    /\ UNCHANGED <<restaurant, tables, recurring, today, pc, local>>

(***************************************************************************)
(* Initial state and the booking specification                             *)
(***************************************************************************)
NoLocal == [op |-> "none"]

Init ==
    /\ restaurant \in {DayRestaurant, NightRestaurant}
    /\ tables = Catalog
    /\ reservations = <<>>
    /\ cache = <<>>
    /\ waitlist = <<>>
    /\ offers = [i \in 1..MaxWaitlist |-> 0]
    /\ last = Done("none", 0, 0, "")
    /\ pc = [p \in Procs |-> "idle"]
    /\ local = [p \in Procs |-> NoLocal]
    /\ recurring = <<>>
    /\ today = 1

\* Requests of the booking specification: the double-booking test's pair
\* (12:00 for 120 min, 13:00 for 90 min), late bookings whose end passes 24:00.
BookingCreates ==
    [restaurantId : {"r1"}, tableId : {"", "t1"}, partySize : {2}, reservationDate : {1},
     startTime : {<<12, 0>>, <<13, 0>>, <<21, 0>>, <<23, 0>>}, durationMinutes : {120, 180}]

BookingUpdates ==
    [tableId : {"", "t1"}, partySize : {0}, reservationDate : {0},
     startTime : {NoTime, <<13, 0>>}, durationMinutes : {0}]

Next ==
    \/ \E dto \in BookingCreates : Create(dto)
    \/ \E id \in 1..MaxReservations, dto \in BookingUpdates : Update(id, dto)
    \/ \E id \in 1..MaxReservations : Cancel(id)
    \/ \E id \in 1..MaxReservations : Confirm(id)
    \/ \E id \in 1..MaxReservations : MarkAsSeated(id)
    \/ \E id \in 1..MaxReservations : MarkAsCompleted(id)
    \/ \E id \in 1..MaxReservations : MarkAsNoShow(id)

Spec == Init /\ [][Next]_vars

(***************************************************************************)
(* Properties of the booking specification                                 *)
(***************************************************************************)
\* The minutes a reservation occupies its table, counted from 00:00 of its date.
OccupiedFrom(r) == toMinutes(r.startTime)

OccupiedUntil(r) == toMinutes(r.startTime) + r.durationMinutes

\* C1: no two reservations on the same table and date that are both pending,
\* confirmed or seated occupy overlapping time.
C1_NoDoubleBooking ==
    \A i, j \in DOMAIN reservations :
        (/\ i < j
         /\ reservations[i].tableId = reservations[j].tableId
         /\ reservations[i].reservationDate = reservations[j].reservationDate
         /\ reservations[i].status \in ActiveStatuses
         /\ reservations[j].status \in ActiveStatuses)
        => ~(/\ OccupiedFrom(reservations[i]) < OccupiedUntil(reservations[j])
             /\ OccupiedFrom(reservations[j]) < OccupiedUntil(reservations[i]))

\* C5: in a restaurant that closes after it opens on the same day, every stored
\* reservation lies within the operating hours: opening <= start and
\* start + duration <= closing, in minutes of the day.
C5_WithinOperatingHours ==
    toMinutes(restaurant.closingTime) > toMinutes(restaurant.openingTime) =>
        \A i \in DOMAIN reservations :
            /\ toMinutes(restaurant.openingTime) <= toMinutes(reservations[i].startTime)
            /\ toMinutes(reservations[i].startTime) + reservations[i].durationMinutes
                   <= toMinutes(restaurant.closingTime)

(***************************************************************************)
(* The lifecycle specification: a few bookings and every transition        *)
(* request on each of them.                                                *)
(***************************************************************************)
LifecycleCreates ==
    [restaurantId : {"r1"}, tableId : {""}, partySize : {2}, reservationDate : {1},
     startTime : {<<19, 0>>}, durationMinutes : {90}]

NextLifecycle ==
    \/ \E dto \in LifecycleCreates : Create(dto)
    \/ \E id \in 1..MaxReservations : Cancel(id)
    \/ \E id \in 1..MaxReservations : Confirm(id)
    \/ \E id \in 1..MaxReservations : MarkAsSeated(id)
    \/ \E id \in 1..MaxReservations : MarkAsCompleted(id)
    \/ \E id \in 1..MaxReservations : MarkAsNoShow(id)

SpecLifecycle == Init /\ [][NextLifecycle]_vars

TransitionRequests == {"confirm", "seat", "complete", "cancel", "no_show"}

\* The transitions of the state machine: <<status before, request, status after>>.
LegalTransitions ==
    {<<"pending", "confirm", "confirmed">>,
     <<"confirmed", "seat", "seated">>,
     <<"seated", "complete", "completed">>,
     <<"pending", "cancel", "cancelled">>,
     <<"confirmed", "cancel", "cancelled">>,
     <<"pending", "no_show", "no_show">>,
     <<"confirmed", "no_show", "no_show">>}

\* C3: a transition request succeeds exactly for the pairs (status, request) of
\* the state machine and then sets the status of the machine; every other pair
\* fails with an error and leaves the status unchanged; no request changes the
\* status of another reservation.
C3_OnlyLegalTransitions ==
    [][last'.op \in TransitionRequests =>
        \A id \in DOMAIN reservations :
            IF id = last'.id
            THEN LET before == reservations[id].status
                     after == reservations'[id].status
                 IN  IF \E t \in LegalTransitions : t[1] = before /\ t[2] = last'.op
                     THEN /\ last'.code = 200
                          /\ <<before, last'.op, after>> \in LegalTransitions
                     ELSE /\ last'.code = 400
                          /\ after = before
            ELSE reservations'[id] = reservations[id]]_vars

\* A cancel request on a seated reservation was refused and left it seated.
C3_Witness ==
    /\ last.op = "cancel"
    /\ last.code = 400
    /\ last.id \in DOMAIN reservations
    /\ reservations[last.id].status = "seated"

(***************************************************************************)
(* The peak-hour specification: bookings before, inside and after the peak *)
(* window, with durations at and above the cap, created and then moved.    *)
(***************************************************************************)
PeakCreates ==
    [restaurantId : {"r1"}, tableId : {""}, partySize : {2}, reservationDate : {1},
     startTime : {<<17, 0>>, <<18, 0>>, <<20, 30>>, <<21, 0>>}, durationMinutes : {90, 120}]

PeakUpdates ==
    [tableId : {""}, partySize : {0}, reservationDate : {0},
     startTime : {NoTime, <<20, 30>>, <<21, 0>>}, durationMinutes : {0, 120}]

NextPeak ==
    \/ \E dto \in PeakCreates : Create(dto)
    \/ \E id \in 1..MaxReservations, dto \in PeakUpdates : Update(id, dto)

SpecPeak == Init /\ [][NextPeak]_vars

InPeakWindow(startTime) == startTime[1] >= PeakStart /\ startTime[1] < PeakEnd

AssignCreates ==
    [restaurantId : {"r1"}, tableId : {"", "t3"}, partySize : {1, 2}, reservationDate : {1},
     startTime : {<<19, 0>>, <<21, 0>>}, durationMinutes : {90}]

NextAssign ==
    \/ \E dto \in AssignCreates : Create(dto)
    \/ \E id \in 1..MaxReservations : Cancel(id)

SpecAssign == Init /\ [][NextAssign]_vars

\* The tables of the restaurant that are active, fit the party and carry no
\* pending, confirmed or seated reservation on that date whose stored
\* [start, end) meets the requested [start, end).
FreeEligibleTables(dto) ==
    LET s == toMinutes(dto.startTime)
        e == toMinutes(calculateEndTime(dto.startTime, dto.durationMinutes))
    IN  {t \in DOMAIN tables :
            /\ tables[t].restaurantId = dto.restaurantId
            /\ tables[t].isActive
            /\ tables[t].minCapacity <= dto.partySize
            /\ dto.partySize <= tables[t].capacity
            /\ \A i \in DOMAIN reservations :
                  (/\ reservations[i].tableId = t
                   /\ reservations[i].reservationDate = dto.reservationDate
                   /\ reservations[i].status \in {"pending", "confirmed", "seated"})
                    => ~(/\ s < toMinutes(reservations[i].endTime)
                         /\ toMinutes(reservations[i].startTime) < e)}

PassesValidation(dto) ==
    /\ restaurant.isActive
    /\ isTimeRangeValid(restaurant, dto.startTime,
                        calculateEndTime(dto.startTime, dto.durationMinutes))
    /\ ~(InPeakWindow(dto.startTime) /\ dto.durationMinutes > MaxPeakDuration)

RECURSIVE SlotsFrom(_, _, _, _)
SlotsFrom(openingMinutes, adjustedClosing, durationMinutes, intervalMinutes) ==
    IF openingMinutes + durationMinutes <= adjustedClosing
    THEN <<[startTime |-> toTimeString(openingMinutes),
            endTime |-> toTimeString(openingMinutes + durationMinutes)]>>
         \o SlotsFrom(openingMinutes + intervalMinutes, adjustedClosing,
                      durationMinutes, intervalMinutes)
    ELSE <<>>

generateTimeSlotsSameDay(openingTime, closingTime, durationMinutes, intervalMinutes) ==
    SlotsFrom(toMinutes(openingTime), toMinutes(closingTime), durationMinutes, intervalMinutes)

generateTimeSlots(openingTime, closingTime, durationMinutes, intervalMinutes) ==
    LET openingMinutes == toMinutes(openingTime)
        closingMinutes == toMinutes(closingTime)
        adjustedClosing == IF closingMinutes < openingMinutes
                           THEN closingMinutes + 24 * 60 ELSE closingMinutes
    IN  SlotsFrom(openingMinutes, adjustedClosing, durationMinutes, intervalMinutes)

getFitScore(table, partySize) == table.capacity - partySize

\* The body of getAvailability after a cache miss, for one order of the
\* suitable tables.
ComputeAvailability(rest, suitableTables, ledger, restaurantId, date, partySize, durationMinutes) ==
    LET found == {i \in DOMAIN ledger :
                     /\ ledger[i].restaurantId = restaurantId
                     /\ ledger[i].reservationDate = date
                     /\ ledger[i].status \in ActiveStatuses}
        slots == generateTimeSlots(rest.openingTime, rest.closingTime,
                                   durationMinutes, SlotInterval)
        isAvailable(slot, t) ==
            ~\E i \in found :
                /\ ledger[i].tableId = t
                /\ timeRangesOverlap(ledger[i].startTime, ledger[i].endTime,
                                     slot.startTime, slot.endTime)
        availableTables(slot) == SelectSeq(suitableTables, LAMBDA t : isAvailable(slot, t))
        filled == [n \in DOMAIN slots |->
                      [startTime |-> slots[n].startTime, endTime |-> slots[n].endTime,
                       availableTables |-> availableTables(slots[n])]]
    IN  [availableSlots |-> SelectSeq(filled, LAMBDA sl : Len(sl.availableTables) > 0),
         suggestedTables |->
             [n \in 1..MinOf(3, Len(suitableTables)) |->
                 [id |-> suitableTables[n],
                  fitScore |-> getFitScore(tables[suitableTables[n]], partySize)]]]

EmptyAvailability == [availableSlots |-> <<>>, suggestedTables |-> <<>>]

Answered(key, source, result) ==
    [op |-> "availability", id |-> 0, code |-> 200, reason |-> source,
     key |-> key, result |-> result]

GetAvailability(restaurantId, date, partySize, durationMinutes) ==
    LET key == getAvailabilityKey(restaurantId, date, partySize, durationMinutes)
    IN  \E suitableTables \in findTablesForPartySize(restaurantId, partySize) :
            LET result == ComputeAvailability(restaurant, suitableTables, reservations,
                                              restaurantId, date, partySize, durationMinutes)
            IN  /\ UNCHANGED <<restaurant, tables, recurring, today, reservations, waitlist, offers, pc, local>>
                /\ cache' = IF key \in DOMAIN cache \/ Len(suitableTables) = 0
                            THEN cache
                            ELSE setAvailability(cache, key, result)
                /\ last' = IF key \in DOMAIN cache THEN Answered(key, "cached", cache[key])
                           ELSE IF Len(suitableTables) = 0
                                THEN Answered(key, "no_tables", EmptyAvailability)
                                ELSE Answered(key, "computed", result)

\* The entry's time to live runs out.
ExpireAvailability(key) ==
    /\ key \in DOMAIN cache
    /\ cache' = [k \in DOMAIN cache \ {key} |-> cache[k]]
    /\ last' = Done("expire", 0, 0, "")
    /\ UNCHANGED <<restaurant, tables, recurring, today, reservations, waitlist, offers, pc, local>>

(***************************************************************************)
(* The cache specification: one evening is booked, moved through its life  *)
(* and queried for availability in between.                                *)
(***************************************************************************)
CacheCreates ==
    [restaurantId : {"r1"}, tableId : {""}, partySize : {2}, reservationDate : {1},
     startTime : {<<19, 0>>}, durationMinutes : {90}]

CacheQueries == [restaurantId : {"r1"}, date : {1}, partySize : {2, 5}, durationMinutes : {90}]

NextCache ==
    \/ \E dto \in CacheCreates : Create(dto)
    \/ \E id \in 1..MaxReservations : Cancel(id)
    \/ \E id \in 1..MaxReservations : Confirm(id)
    \/ \E id \in 1..MaxReservations : MarkAsSeated(id)
    \/ \E id \in 1..MaxReservations : MarkAsCompleted(id)
    \/ \E id \in 1..MaxReservations : MarkAsNoShow(id)
    \/ \E q \in CacheQueries :
          GetAvailability(q.restaurantId, q.date, q.partySize, q.durationMinutes)
    \/ \E key \in DOMAIN cache : ExpireAvailability(key)

SpecCache == Init /\ [][NextCache]_vars

\* C8: an availability answer equals a fresh computation over the current
\* ledger, for some order in which the store may list equally large tables.
C8_AnswerIsFresh ==
    last.op = "availability" =>
        \E suitableTables \in findTablesForPartySize(last.key[1], last.key[3]) :
            last.result = IF Len(suitableTables) = 0 THEN EmptyAvailability
                          ELSE ComputeAvailability(restaurant, suitableTables, reservations,
                                                   last.key[1], last.key[2], last.key[3],
                                                   last.key[4])

(***************************************************************************)
(* Waitlist handlers                                                       *)
(***************************************************************************)
NewWaitlistEntry(dto, createdAt) ==
    [restaurantId |-> dto.restaurantId, partySize |-> dto.partySize,
     requestedDate |-> dto.requestedDate,
     preferredStartTime |-> dto.preferredStartTime,
     preferredEndTime |-> dto.preferredEndTime,
     status |-> "waiting", notificationCount |-> 0, convertedReservationId |-> 0,
     createdAt |-> createdAt]

WaitlistCreate(dto) ==
    /\ UNCHANGED <<restaurant, tables, recurring, today, reservations, cache, offers, pc, local>>
    /\ IF ~restaurant.isActive
       THEN /\ last' = Done("waitlist_create", 0, 400, "restaurant_inactive")
            /\ UNCHANGED waitlist
       ELSE IF ~isTimeRangeValid(restaurant, dto.preferredStartTime, dto.preferredEndTime)
            THEN /\ last' = Done("waitlist_create", 0, 400, "operating_hours")
                 /\ UNCHANGED waitlist
            ELSE /\ Len(waitlist) < MaxWaitlist
                 /\ waitlist' = Append(waitlist, NewWaitlistEntry(dto, Len(waitlist) + 1))
                 /\ last' = Done("waitlist_create", Len(waitlist) + 1, 201, "ok")

MarkAsExpired(id) ==
    /\ id \in DOMAIN waitlist
    /\ UNCHANGED <<restaurant, tables, recurring, today, reservations, cache, offers, pc, local>>
    /\ IF waitlist[id].status # "notified"
       THEN /\ last' = Done("waitlist_expire", id, 400, "not_notified")
            /\ UNCHANGED waitlist
       ELSE /\ waitlist' = [waitlist EXCEPT ![id].status = "expired"]
            /\ last' = Done("waitlist_expire", id, 200, "ok")

(***************************************************************************)
(* The waitlist specification: lunch bookings for two are made and         *)
(* cancelled while parties of two and four queue for the same afternoon.   *)
(***************************************************************************)
QueueCreates ==
    [restaurantId : {"r1"}, tableId : {""}, partySize : {2}, reservationDate : {1},
     startTime : {<<12, 0>>}, durationMinutes : {90}]

QueueEntries ==
    [restaurantId : {"r1"}, partySize : {2, 4}, requestedDate : {1},
     preferredStartTime : {<<11, 0>>}, preferredEndTime : {<<15, 0>>}]

NextWaitlist ==
    \/ \E dto \in QueueCreates : Create(dto)
    \/ \E id \in 1..MaxReservations : Cancel(id)
    \/ \E dto \in QueueEntries : WaitlistCreate(dto)
    \/ \E id \in 1..MaxWaitlist : MarkAsExpired(id)

SpecWaitlist == Init /\ [][NextWaitlist]_vars

\* The waiting entries a freed reservation can be offered to: same
\* restaurant and date, preferred window around the freed interval, party
\* no larger than the freed table.
CompatibleWaiting(r) ==
    {i \in DOMAIN waitlist :
        /\ waitlist[i].status = "waiting"
        /\ waitlist[i].restaurantId = r.restaurantId
        /\ waitlist[i].requestedDate = r.reservationDate
        /\ toMinutes(waitlist[i].preferredStartTime) <= toMinutes(r.startTime)
        /\ toMinutes(r.endTime) <= toMinutes(waitlist[i].preferredEndTime)
        /\ waitlist[i].partySize <= tables[r.tableId].capacity}

\* C9: a cancellation that frees a slot notifies the compatible waiting
\* entry that was created first and no other entry; notified and expired
\* entries are passed over; with no compatible waiting entry the waitlist
\* is left as it is.
C9_FifoPromotion ==
    [][(last'.op = "cancel" /\ last'.code = 200) =>
          LET compatible == CompatibleWaiting(reservations[last'.id])
          IN  IF compatible = {}
              THEN waitlist' = waitlist
              ELSE \E e \in compatible :
                      /\ \A j \in compatible : waitlist[e].createdAt <= waitlist[j].createdAt
                      /\ waitlist' = [waitlist EXCEPT ![e].status = "notified",
                                                      ![e].notificationCount = @ + 1]]_vars

\* A, B and C queued in that order for the same slot: A was notified and
\* has expired, the second freed slot went to B, C still waits.
C9_Witness ==
    /\ Len(waitlist) = 3
    /\ \A i \in 1..3 : waitlist[i].partySize = 2
    /\ waitlist[1].status = "expired"
    /\ waitlist[2].status = "notified"
    /\ waitlist[3].status = "waiting"
    /\ last.op = "cancel"
    /\ last.code = 200

(***************************************************************************)
(* Handlers in steps.  A handler run by p reads the store at one await and *)
(* writes it at a later one; pc[p] is the await it stands at and local[p]  *)
(* holds the entity it loaded, as changed in memory so far.                *)
(***************************************************************************)
InFlight(op, id, row) == [op |-> op, id |-> id, row |-> row]

\* create up to the availability check (ReservationService.create, before save)
CreateCheck(p, dto) ==
    /\ pc[p] = "idle"
    /\ \E suitableTables \in findTablesForPartySize(dto.restaurantId, dto.partySize) :
          LET res == CreateResult(dto, suitableTables, reservations)
              pending == Cardinality({q \in Procs : pc[q] = "create_save"})
          IN  IF res.code # 201
              THEN /\ last' = Done("create", 0, res.code, res.reason)
                   /\ UNCHANGED <<pc, local>>
              ELSE /\ Len(reservations) + pending < MaxReservations
                   /\ pc' = [pc EXCEPT ![p] = "create_save"]
                   /\ local' = [local EXCEPT
                                  ![p] = InFlight("create", 0, NewReservation(dto, res.tableId))]
                   /\ UNCHANGED last
    /\ UNCHANGED <<restaurant, tables, recurring, today, reservations, cache, waitlist, offers>>

\* reservationRepository.save and the cache invalidation that follows
CreateSave(p) ==
    /\ pc[p] = "create_save"
    /\ reservations' = Append(reservations, local[p].row)
    /\ cache' = invalidateAvailability(cache, local[p].row.restaurantId,
                                       local[p].row.reservationDate)
    /\ last' = Done("create", Len(reservations) + 1, 201, "ok")
    /\ pc' = [pc EXCEPT ![p] = "idle"]
    /\ local' = [local EXCEPT ![p] = NoLocal]
    /\ UNCHANGED <<restaurant, tables, recurring, today, waitlist, offers>>

\* update from findById to the availability check
UpdateCheck(p, id, dto) ==
    /\ pc[p] = "idle"
    /\ id \in DOMAIN reservations
    /\ LET res == UpdateResult(id, reservations[id], dto, reservations)
       IN  IF res.code # 200
           THEN /\ last' = Done("update", id, res.code, res.reason)
                /\ UNCHANGED <<pc, local>>
           ELSE /\ pc' = [pc EXCEPT ![p] = "update_save"]
                /\ local' = [local EXCEPT
                               ![p] = [op |-> "update", id |-> id, dto |-> dto,
                                       row |-> Assigned(reservations[id], dto)]]
                /\ UNCHANGED last
    /\ UNCHANGED <<restaurant, tables, recurring, today, reservations, cache, waitlist, offers>>

\* save of the entity loaded earlier, then the invalidations
UpdateSave(p) ==
    /\ pc[p] = "update_save"
    /\ reservations' = [reservations EXCEPT ![local[p].id] = local[p].row]
    /\ cache' = InvalidateAfterUpdate(cache, local[p].row, local[p].dto)
    /\ last' = Done("update", local[p].id, 200, "ok")
    /\ pc' = [pc EXCEPT ![p] = "idle"]
    /\ local' = [local EXCEPT ![p] = NoLocal]
    /\ UNCHANGED <<restaurant, tables, recurring, today, waitlist, offers>>

StatusAllowed(op, row) ==
    CASE op = "cancel" -> canBeCancelled(row)
      [] op = "confirm" -> row.status = "pending"
      [] op = "seat" -> row.status = "confirmed"
      [] op = "complete" -> row.status = "seated"
      [] op = "no_show" -> row.status \in {"pending", "confirmed"}

StatusTarget(op) ==
    CASE op = "cancel" -> "cancelled"
      [] op = "confirm" -> "confirmed"
      [] op = "seat" -> "seated"
      [] op = "complete" -> "completed"
      [] op = "no_show" -> "no_show"

\* cancel, confirm, markAs...: findById, the status test, the change in memory
StatusRead(p, op, id) ==
    /\ pc[p] = "idle"
    /\ id \in DOMAIN reservations
    /\ IF ~StatusAllowed(op, reservations[id])
       THEN /\ last' = Done(op, id, 400, "illegal_transition")
            /\ UNCHANGED <<pc, local>>
       ELSE /\ pc' = [pc EXCEPT ![p] = "status_save"]
            /\ local' = [local EXCEPT
                           ![p] = InFlight(op, id, [reservations[id] EXCEPT
                                                       !.status = StatusTarget(op)])]
            /\ UNCHANGED last
    /\ UNCHANGED <<restaurant, tables, recurring, today, reservations, cache, waitlist, offers>>

\* reservationRepository.save of the loaded entity; cancel and no-show then
\* invalidate the cache and go on to the waitlist
StatusSave(p) ==
    /\ pc[p] = "status_save"
    /\ reservations' = [reservations EXCEPT ![local[p].id] = local[p].row]
    /\ IF local[p].op \in {"cancel", "no_show"}
       THEN /\ cache' = invalidateAvailability(cache, local[p].row.restaurantId,
                                               local[p].row.reservationDate)
            /\ pc' = [pc EXCEPT ![p] = "promote"]
            /\ UNCHANGED <<local, last>>
       ELSE /\ pc' = [pc EXCEPT ![p] = "idle"]
            /\ local' = [local EXCEPT ![p] = NoLocal]
            /\ last' = Done(local[p].op, local[p].id, 200, "ok")
            /\ UNCHANGED cache
    /\ UNCHANGED <<restaurant, tables, recurring, today, waitlist, offers>>

\* processWaitlistForCancellation up to notifyAvailability's findById and
\* canBeNotified test
PromoteRead(p) ==
    /\ pc[p] = "promote"
    /\ LET r == local[p].row
           entry == WaitlistHead(waitlist, r.restaurantId, r.reservationDate,
                                 r.startTime, r.endTime, tables[r.tableId].capacity)
       IN  IF entry = 0 \/ ~canBeNotified(waitlist[entry])
           THEN /\ pc' = [pc EXCEPT ![p] = "idle"]
                /\ local' = [local EXCEPT ![p] = NoLocal]
                /\ last' = Done(local[p].op, local[p].id, 200, "ok")
           ELSE /\ pc' = [pc EXCEPT ![p] = "notify"]
                /\ local' = [local EXCEPT
                               ![p] = [op |-> local[p].op, id |-> local[p].id, row |-> r,
                                       entry |-> entry, entryRow |-> waitlist[entry]]]
                /\ UNCHANGED last
    /\ UNCHANGED <<restaurant, tables, recurring, today, reservations, cache, waitlist, offers>>

\* sendWaitlistNotification, then the save of the loaded entry as NOTIFIED
PromoteNotify(p) ==
    /\ pc[p] = "notify"
    /\ offers' = [offers EXCEPT ![local[p].entry] = @ + 1]
    /\ waitlist' = [waitlist EXCEPT ![local[p].entry] = Notified(local[p].entryRow)]
    /\ last' = Done(local[p].op, local[p].id, 200, "ok")
    /\ pc' = [pc EXCEPT ![p] = "idle"]
    /\ local' = [local EXCEPT ![p] = NoLocal]
    /\ UNCHANGED <<restaurant, tables, recurring, today, reservations, cache>>

(***************************************************************************)
(* The concurrent booking specification: two requests at a time for table  *)
(* t1 at lunch, their reads and writes interleaved.                        *)
(***************************************************************************)
ConcCreates ==
    [restaurantId : {"r1"}, tableId : {"t1"}, partySize : {2}, reservationDate : {1},
     startTime : {<<12, 0>>, <<13, 0>>}, durationMinutes : {90}]

ConcUpdates ==
    [tableId : {""}, partySize : {0}, reservationDate : {0},
     startTime : {<<13, 0>>}, durationMinutes : {0}]

ConcStatusRequests == {"cancel", "confirm"}

NextConc ==
    \/ \E p \in Procs, dto \in ConcCreates : CreateCheck(p, dto)
    \/ \E p \in Procs : CreateSave(p)
    \/ \E p \in Procs, id \in 1..MaxReservations, dto \in ConcUpdates : UpdateCheck(p, id, dto)
    \/ \E p \in Procs : UpdateSave(p)
    \/ \E p \in Procs, op \in ConcStatusRequests, id \in 1..MaxReservations :
          StatusRead(p, op, id)
    \/ \E p \in Procs : StatusSave(p)
    \/ \E p \in Procs : PromoteRead(p)

SpecConc == Init /\ [][NextConc]_vars

\* C2: whatever the interleaving of checks and saves, no two pending,
\* confirmed or seated reservations on one table and date have stored
\* [start, end) intervals that meet.
C2_AtMostOneSucceeds ==
    \A i, j \in DOMAIN reservations :
        (/\ i < j
         /\ reservations[i].tableId = reservations[j].tableId
         /\ reservations[i].reservationDate = reservations[j].reservationDate
         /\ reservations[i].status \in ActiveStatuses
         /\ reservations[j].status \in ActiveStatuses)
            => ~timeRangesOverlap(reservations[i].startTime, reservations[i].endTime,
                                  reservations[j].startTime, reservations[j].endTime)

\* C4: a reservation that is completed, cancelled or no-show keeps that
\* status in every later step.
C4_TerminalIsFinal ==
    [][\A id \in DOMAIN reservations :
          reservations[id].status \in TerminalStatuses
              => reservations'[id].status = reservations[id].status]_vars

(***************************************************************************)
(* The concurrent waitlist specification: two lunch bookings are cancelled *)
(* at the same time while parties of two wait for that slot.               *)
(***************************************************************************)
WaitConcEntries ==
    [restaurantId : {"r1"}, partySize : {2}, requestedDate : {1},
     preferredStartTime : {<<11, 0>>}, preferredEndTime : {<<15, 0>>}]

NextWaitConc ==
    \/ \E dto \in QueueCreates : Create(dto)
    \/ \E dto \in WaitConcEntries : WaitlistCreate(dto)
    \/ \E p \in Procs, id \in 1..MaxReservations : StatusRead(p, "cancel", id)
    \/ \E p \in Procs, id \in 1..MaxReservations : StatusRead(p, "no_show", id)
    \/ \E p \in Procs : StatusSave(p)
    \/ \E p \in Procs : PromoteRead(p)
    \/ \E p \in Procs : PromoteNotify(p)

SpecWaitConc == Init /\ [][NextWaitConc]_vars

\* C10: no waitlist entry is sent more than one offer.
C10_AtMostOneOffer == \A e \in DOMAIN offers : offers[e] <= 1

(***************************************************************************)
(* Recurring series.  Dates are day numbers of a year whose 7 January is a *)
(* Sunday; 0 stands for an absent date, -1 for an absent dayOfWeek, 0 for  *)
(* an absent maxOccurrences.  A series row lists the ids of the            *)
(* reservations linked to it, in the order they were linked.               *)
(***************************************************************************)
LookAheadDays == 30

MaxSeries == 1

MaxDay == 4

RecurringReservationStatus == {"active", "paused", "cancelled", "completed"}

getDay(date) == date % 7

\* Dates are day numbers counted from 1 January of a year that is not a leap
\* year, so that a day-of-month past the end of a month runs on into the
\* next month, as a JavaScript Date does.
\* new Date(year, month + 1, 0).getDate()
DaysInMonth(month) ==
    LET m == ((month - 1) % 12) + 1
    IN  IF m = 2 THEN 28 ELSE IF m \in {4, 6, 9, 11} THEN 30 ELSE 31

\* The day number of the last day before the first of the month, for the
\* months of the year and the first two of the next.
MonthStart(month) ==
    <<0, 31, 59, 90, 120, 151, 181, 212, 243, 273, 304, 334, 365, 396, 424>>[month]

\* getMonth()
getMonth(date) == CHOOSE m \in 1..14 : MonthStart(m) < date /\ date <= MonthStart(m + 1)

\* getDate()
getDate(date) == date - MonthStart(getMonth(date))

\* setMonth(getMonth() + 1), then setDate(min(dayOfMonth, last day of the
\* month the date is now in))
NextMonthClamped(date, dayOfMonth) ==
    LET next == MonthStart(getMonth(date) + 1) + getDate(date)
    IN  IF dayOfMonth # 0
        THEN MonthStart(getMonth(next))
                 + (IF dayOfMonth < DaysInMonth(getMonth(next)) THEN dayOfMonth
                    ELSE DaysInMonth(getMonth(next)))
        ELSE next

\* while (currentDate <= fromDate) { setMonth; setDate }
RECURSIVE AdvanceMonthly(_, _, _)
AdvanceMonthly(currentDate, fromDate, dayOfMonth) ==
    IF currentDate <= fromDate
    THEN AdvanceMonthly(NextMonthClamped(currentDate, dayOfMonth), fromDate, dayOfMonth)
    ELSE currentDate

canCreateMoreOccurrences(rec) ==
    IF rec.status # "active" THEN FALSE
    ELSE IF rec.maxOccurrences # 0 /\ rec.occurrencesCreated >= rec.maxOccurrences THEN FALSE
    ELSE IF rec.endDate # 0
            /\ (IF rec.nextOccurrenceDate # 0 THEN rec.nextOccurrenceDate ELSE rec.startDate)
                   > rec.endDate
    THEN FALSE
    ELSE TRUE

\* while (currentDate <= fromDate || currentDate.getDay() !== dayOfWeek) currentDate++
RECURSIVE AdvanceWeekly(_, _, _)
AdvanceWeekly(currentDate, fromDate, dayOfWeek) ==
    IF currentDate <= fromDate \/ getDay(currentDate) # dayOfWeek
    THEN AdvanceWeekly(currentDate + 1, fromDate, dayOfWeek)
    ELSE currentDate

\* while (currentDate <= fromDate) currentDate += 14
RECURSIVE AdvanceBiweekly(_, _)
AdvanceBiweekly(currentDate, fromDate) ==
    IF currentDate <= fromDate THEN AdvanceBiweekly(currentDate + 14, fromDate)
    ELSE currentDate

\* 0 for null
getNextOccurrenceDate(rec, fromDate) ==
    IF ~canCreateMoreOccurrences(rec) THEN 0
    ELSE LET start == IF rec.nextOccurrenceDate # 0 THEN rec.nextOccurrenceDate
                      ELSE rec.startDate
             currentDate ==
                 CASE rec.recurrencePattern = "daily" ->
                          IF start <= fromDate THEN fromDate + 1 ELSE start
                   [] rec.recurrencePattern = "weekly" ->
                          AdvanceWeekly(start, fromDate, rec.dayOfWeek)
                   [] rec.recurrencePattern = "biweekly" ->
                          AdvanceBiweekly(start, fromDate)
                   [] rec.recurrencePattern = "monthly" ->
                          IF rec.dayOfMonth # 0
                          THEN AdvanceMonthly(start, fromDate, rec.dayOfMonth)
                          ELSE start
         IN  IF rec.endDate # 0 /\ currentDate > rec.endDate THEN 0 ELSE currentDate

\* 0 for undefined
calculateNextDate(rec, currentDate) ==
    LET next == CASE rec.recurrencePattern = "daily" -> currentDate + 1
                  [] rec.recurrencePattern = "weekly" -> currentDate + 7
                  [] rec.recurrencePattern = "biweekly" -> currentDate + 14
                  [] rec.recurrencePattern = "monthly" ->
                         NextMonthClamped(currentDate, rec.dayOfMonth)
    IN  IF rec.endDate # 0 /\ next > rec.endDate THEN 0 ELSE next

NewRecurring(data) ==
    [restaurantId |-> data.restaurantId, tableId |-> data.tableId,
     partySize |-> data.partySize, recurrencePattern |-> data.recurrencePattern,
     dayOfWeek |-> data.dayOfWeek, dayOfMonth |-> data.dayOfMonth,
     startTime |-> data.startTime,
     durationMinutes |-> data.durationMinutes, startDate |-> data.startDate,
     endDate |-> data.endDate, maxOccurrences |-> data.maxOccurrences,
     occurrencesCreated |-> 0, status |-> "active",
     nextOccurrenceDate |-> data.startDate, lastOccurrenceDate |-> 0,
     reservations |-> <<>>]

Store(rec, ledger, c) == [rec |-> rec, ledger |-> ledger, cache |-> c]

\* createNextOccurrence on the loaded series rec: the series row, the ledger
\* and the cache it leaves behind.
createNextOccurrence(rec, ledger, c, suitableTables, now) ==
    LET nextDate == getNextOccurrenceDate(rec, now)
        dto == [restaurantId |-> rec.restaurantId, tableId |-> rec.tableId,
                partySize |-> rec.partySize, reservationDate |-> nextDate,
                startTime |-> rec.startTime, durationMinutes |-> rec.durationMinutes]
        res == CreateResult(dto, suitableTables, ledger)
        created == rec.occurrencesCreated + 1
    IN  IF ~canCreateMoreOccurrences(rec) \/ nextDate = 0
        THEN Store(rec, ledger, c)
        ELSE IF res.code = 201
        THEN Store([rec EXCEPT
                       !.occurrencesCreated = created,
                       !.lastOccurrenceDate = nextDate,
                       !.nextOccurrenceDate = calculateNextDate(rec, nextDate),
                       !.reservations = Append(@, Len(ledger) + 1),
                       !.status = IF rec.maxOccurrences # 0 /\ created >= rec.maxOccurrences
                                  THEN "completed" ELSE @],
                   Append(ledger, NewReservation(dto, res.tableId)),
                   invalidateAvailability(c, dto.restaurantId, dto.reservationDate))
        ELSE Store([rec EXCEPT !.nextOccurrenceDate = calculateNextDate(rec, nextDate)],
                   ledger, c)

RecurringCreateResult(data) ==
    IF data.tableId # "" /\ (data.tableId \notin DOMAIN tables
                             \/ tables[data.tableId].restaurantId # data.restaurantId)
    THEN Outcome(404, "table_not_found", "")
    ELSE IF data.tableId # "" /\ tables[data.tableId].capacity < data.partySize
    THEN Outcome(400, "capacity", "")
    ELSE IF data.recurrencePattern \in {"weekly", "biweekly"}
            /\ (data.dayOfWeek < 0 \/ data.dayOfWeek > 6)
    THEN Outcome(400, "day_of_week", "")
    ELSE IF data.recurrencePattern = "monthly"
            /\ (data.dayOfMonth < 1 \/ data.dayOfMonth > 31)
    THEN Outcome(400, "day_of_month", "")
    ELSE IF ~isTimeRangeValid(restaurant, data.startTime,
                              calculateEndTime(data.startTime, data.durationMinutes))
    THEN Outcome(400, "operating_hours", "")
    ELSE Outcome(201, "ok", "")

RecurringCreate(data) ==
    \E suitableTables \in findTablesForPartySize(data.restaurantId, data.partySize) :
        LET res == RecurringCreateResult(data)
            run == createNextOccurrence(NewRecurring(data), reservations, cache,
                                        suitableTables, today)
        IN  /\ UNCHANGED <<restaurant, tables, today, waitlist, offers, pc, local>>
            /\ IF res.code # 201
               THEN /\ last' = Done("recurring_create", 0, res.code, res.reason)
                    /\ UNCHANGED <<recurring, reservations, cache>>
               ELSE /\ Len(recurring) < MaxSeries
                    /\ Len(run.ledger) <= MaxReservations
                    /\ recurring' = Append(recurring, run.rec)
                    /\ reservations' = run.ledger
                    /\ cache' = run.cache
                    /\ last' = Done("recurring_create", Len(recurring) + 1, 201, "ok")

\* nextOccurrenceDate && nextOccurrenceDate <= lookAhead && canCreateMoreOccurrences()
MoreAhead(st, now) ==
    /\ st.rec.nextOccurrenceDate # 0
    /\ st.rec.nextOccurrenceDate <= now + LookAheadDays
    /\ canCreateMoreOccurrences(st.rec)

\* The loop condition holds and createNextOccurrence returns null without
\* changing the series: the while loop never ends.
Spins(st, suitableTables, now) ==
    /\ MoreAhead(st, now)
    /\ createNextOccurrence(st.rec, st.ledger, st.cache, suitableTables, now) = st

\* while (...) { await this.createNextOccurrence(recurring) }, up to the
\* point where it ends or starts to spin
RECURSIVE OccurrencesAhead(_, _, _)
OccurrencesAhead(st, suitableTables, now) ==
    IF MoreAhead(st, now) /\ ~Spins(st, suitableTables, now)
    THEN OccurrencesAhead(createNextOccurrence(st.rec, st.ledger, st.cache,
                                               suitableTables, now),
                          suitableTables, now)
    ELSE st

\* for (const recurring of activeRecurring), from series n on; orders[n] is
\* the order in which the store lists the suitable tables for series n;
\* returns says whether the job gets to its return statement
RECURSIVE ProcessFrom(_, _, _, _, _)
ProcessFrom(n, series, ledger, c, orders) ==
    IF n > Len(series)
    THEN [series |-> series, ledger |-> ledger, cache |-> c, returns |-> TRUE]
    ELSE IF series[n].status = "active" /\ series[n].nextOccurrenceDate # 0
            /\ series[n].nextOccurrenceDate <= today + LookAheadDays
    THEN LET st == OccurrencesAhead(Store(series[n], ledger, c), orders[n], today)
         IN  IF Spins(st, orders[n], today)
             THEN [series |-> [series EXCEPT ![n] = st.rec], ledger |-> st.ledger,
                   cache |-> st.cache, returns |-> FALSE]
             ELSE ProcessFrom(n + 1, [series EXCEPT ![n] = st.rec], st.ledger, st.cache,
                              orders)
    ELSE ProcessFrom(n + 1, series, ledger, c, orders)

TableOrders(series) ==
    LET all == UNION {findTablesForPartySize(series[n].restaurantId, series[n].partySize) :
                         n \in DOMAIN series}
    IN  {f \in [DOMAIN series -> all] :
            \A n \in DOMAIN series :
                f[n] \in findTablesForPartySize(series[n].restaurantId, series[n].partySize)}

ProcessScheduledOccurrences ==
    \E orders \in TableOrders(recurring) :
        LET run == ProcessFrom(1, recurring, reservations, cache, orders)
        IN  /\ Len(run.ledger) <= MaxReservations
            /\ recurring' = run.series
            /\ reservations' = run.ledger
            /\ cache' = run.cache
            /\ last' = IF run.returns THEN Done("process_scheduled", 0, 200, "ok")
                       ELSE Done("process_scheduled", 0, 0, "never_returns")
            /\ UNCHANGED <<restaurant, tables, today, waitlist, offers, pc, local>>

Pause(id) ==
    /\ id \in DOMAIN recurring
    /\ UNCHANGED <<restaurant, tables, today, reservations, cache, waitlist, offers, pc, local>>
    /\ IF recurring[id].status # "active"
       THEN /\ last' = Done("recurring_pause", id, 400, "not_active")
            /\ UNCHANGED recurring
       ELSE /\ recurring' = [recurring EXCEPT ![id].status = "paused"]
            /\ last' = Done("recurring_pause", id, 200, "ok")

Resume(id) ==
    /\ id \in DOMAIN recurring
    /\ UNCHANGED <<restaurant, tables, today, reservations, cache, waitlist, offers, pc, local>>
    /\ IF recurring[id].status # "paused"
       THEN /\ last' = Done("recurring_resume", id, 400, "not_paused")
            /\ UNCHANGED recurring
       ELSE LET active == [recurring[id] EXCEPT !.status = "active"]
                nextDate == getNextOccurrenceDate(active, today)
            IN  /\ recurring' = [recurring EXCEPT
                                    ![id] = IF nextDate # 0
                                            THEN [active EXCEPT !.nextOccurrenceDate = nextDate]
                                            ELSE active]
                /\ last' = Done("recurring_resume", id, 200, "ok")

\* update(id, data): every field of data that is given replaces the stored
\* one (0 and NoTime stand for a field that is not given); only a cancelled
\* series is refused.
RecurringUpdate(id, data) ==
    /\ id \in DOMAIN recurring
    /\ UNCHANGED <<restaurant, tables, today, reservations, cache, waitlist, offers, pc, local>>
    /\ IF recurring[id].status = "cancelled"
       THEN /\ last' = Done("recurring_update", id, 400, "cancelled")
            /\ UNCHANGED recurring
       ELSE /\ recurring' =
                  [recurring EXCEPT
                      ![id].partySize = IF data.partySize # 0 THEN data.partySize ELSE @,
                      ![id].startTime = IF data.startTime # NoTime THEN data.startTime ELSE @,
                      ![id].durationMinutes = IF data.durationMinutes # 0
                                              THEN data.durationMinutes ELSE @,
                      ![id].endDate = IF data.endDate # 0 THEN data.endDate ELSE @,
                      ![id].maxOccurrences = IF data.maxOccurrences # 0
                                             THEN data.maxOccurrences ELSE @]
            /\ last' = Done("recurring_update", id, 200, "ok")

\* The bulk update without its reservationDate condition.
CancelLinkedReservations(ledger, linked, now) ==
    [i \in DOMAIN ledger |->
        IF /\ \E k \in DOMAIN linked : linked[k] = i
           /\ ledger[i].status \in {"pending", "confirmed"}
        THEN [ledger[i] EXCEPT !.status = "cancelled"]
        ELSE ledger[i]]

\* reservationRepository.update({recurringReservationId, reservationDate >= today,
\* status in (PENDING, CONFIRMED)}, {status: CANCELLED})
CancelFutureReservations(ledger, linked, now) ==
    [i \in DOMAIN ledger |->
        IF /\ \E k \in DOMAIN linked : linked[k] = i
           /\ ledger[i].reservationDate >= now
           /\ ledger[i].status \in {"pending", "confirmed"}
        THEN [ledger[i] EXCEPT !.status = "cancelled"]
        ELSE ledger[i]]

RecurringCancel(id, cancelFutureReservations) ==
    /\ id \in DOMAIN recurring
    /\ UNCHANGED <<restaurant, tables, today, cache, waitlist, offers, pc, local>>
    /\ IF recurring[id].status = "cancelled"
       THEN /\ last' = Done("recurring_cancel", id, 400, "already_cancelled")
            /\ UNCHANGED <<recurring, reservations>>
       ELSE /\ recurring' = [recurring EXCEPT ![id].status = "cancelled"]
            /\ reservations' = IF cancelFutureReservations
                               THEN CancelFutureReservations(reservations,
                                                             recurring[id].reservations, today)
                               ELSE reservations
            /\ last' = Done("recurring_cancel", id, 200, "ok")

\* midnight passes
NextDay ==
    /\ today < MaxDay
    /\ today' = today + 1
    /\ UNCHANGED <<restaurant, tables, recurring, reservations, cache, waitlist, offers,
                   last, pc, local>>

(***************************************************************************)
(* The release specification: single bookings and a daily series hold      *)
(* tables at lunch on day 2 while parties queue for that slot; bookings    *)
(* are cancelled, marked no-show, or cancelled with their series.          *)
(***************************************************************************)
ReleaseCreates ==
    [restaurantId : {"r1"}, tableId : {""}, partySize : {2}, reservationDate : {2},
     startTime : {<<12, 0>>}, durationMinutes : {90}]

ReleaseSeries ==
    [restaurantId : {"r1"}, tableId : {""}, partySize : {2}, recurrencePattern : {"daily"},
     dayOfWeek : {-1}, dayOfMonth : {0}, startTime : {<<12, 0>>}, durationMinutes : {90},
     startDate : {2}, endDate : {2}, maxOccurrences : {0}]

ReleaseEntries ==
    [restaurantId : {"r1"}, partySize : {2, 4}, requestedDate : {2},
     preferredStartTime : {<<11, 0>>}, preferredEndTime : {<<15, 0>>}]

NextRelease ==
    \/ \E dto \in ReleaseCreates : Create(dto)
    \/ \E data \in ReleaseSeries : RecurringCreate(data)
    \/ \E dto \in ReleaseEntries : WaitlistCreate(dto)
    \/ \E id \in 1..MaxReservations : Cancel(id)
    \/ \E id \in 1..MaxReservations : MarkAsNoShow(id)
    \/ \E id \in 1..MaxSeries, future \in BOOLEAN : RecurringCancel(id, future)

SpecRelease == Init /\ [][NextRelease]_vars

\* C11: in every step in which a reservation becomes cancelled or no-show
\* while a compatible waiting entry exists, the earliest-created compatible
\* waiting entry is notified.
C11_ReleasePromotes ==
    [][\A id \in DOMAIN reservations :
          (/\ reservations[id].status \notin {"cancelled", "no_show"}
           /\ reservations'[id].status \in {"cancelled", "no_show"})
            => LET compatible == CompatibleWaiting(reservations[id])
               IN  compatible # {} =>
                      \E e \in compatible :
                          /\ \A j \in compatible :
                                waitlist[e].createdAt <= waitlist[j].createdAt
                          /\ waitlist'[e].status = "notified"]_vars

(***************************************************************************)
(* Handlers with their notification.  The customer has an e-mail address;  *)
(* mail says what goes wrong while the message is sent: the restaurant     *)
(* lookup for the template fails, or the SMTP transport fails.             *)
(***************************************************************************)
Mail == [lookupFails : BOOLEAN, transportFails : BOOLEAN]

\* catch (error) { console.error(...) }: TRUE if the error leaves the block
catchAndRethrow(thrown) == thrown

catchAndLog(thrown) == FALSE

\* EmailService.sendEmail: the transport error is caught, the result is false
sendEmail(transportFails) ==
    [sent |-> ~transportFails, thrown |-> catchAndLog(transportFails)]

\* NotificationService.send...: findById of the restaurant, then the e-mail,
\* both inside try
sendNotification(mail) ==
    LET email == sendEmail(mail.transportFails)
    IN  IF mail.lookupFails
        THEN [mail |-> "failed", thrown |-> catchAndLog(TRUE)]
        ELSE [mail |-> IF email.sent THEN "sent" ELSE "failed",
              thrown |-> catchAndLog(email.thrown)]

Replied(op, id, code, reason, mail) ==
    [op |-> op, id |-> id, code |-> code, reason |-> reason, mail |-> mail]

\* ReservationService.create with the confirmation message at its end
CreateMailed(dto, mail) ==
    \E suitableTables \in findTablesForPartySize(dto.restaurantId, dto.partySize) :
        LET res == CreateResult(dto, suitableTables, reservations)
            note == sendNotification(mail)
            id == Len(reservations) + 1
        IN  /\ UNCHANGED <<restaurant, tables, recurring, today, waitlist, offers, pc, local>>
            /\ IF res.code # 201
               THEN /\ last' = Replied("create", 0, res.code, res.reason, "none")
                    /\ UNCHANGED <<reservations, cache>>
               ELSE /\ Len(reservations) < MaxReservations
                    /\ reservations' = Append(reservations, NewReservation(dto, res.tableId))
                    /\ cache' = invalidateAvailability(cache, dto.restaurantId,
                                                       dto.reservationDate)
                    /\ last' = IF note.thrown
                               THEN Replied("create", id, 500, "notification", note.mail)
                               ELSE Replied("create", id, 201, "ok", note.mail)

\* ReservationController.cancel: the service call with its cancellation
\* message, then the waitlist promotion unless the service call threw
CancelMailed(id, mail) ==
    /\ id \in DOMAIN reservations
    /\ UNCHANGED <<restaurant, tables, recurring, today, pc, local>>
    /\ LET reservation == reservations[id]
           table == tables[reservation.tableId]
           note == sendNotification(mail)
       IN  IF ~canBeCancelled(reservation)
           THEN /\ last' = Replied("cancel", id, 400, "cannot_cancel", "none")
                /\ UNCHANGED <<reservations, cache, waitlist, offers>>
           ELSE /\ reservations' = [reservations EXCEPT ![id].status = "cancelled"]
                /\ cache' = invalidateAvailability(cache, reservation.restaurantId,
                                                   reservation.reservationDate)
                /\ IF note.thrown
                   THEN /\ last' = Replied("cancel", id, 500, "notification", note.mail)
                        /\ UNCHANGED <<waitlist, offers>>
                   ELSE /\ waitlist' = processWaitlistForCancellation(waitlist,
                                  reservation.restaurantId, reservation.reservationDate,
                                  reservation.startTime, reservation.endTime, table.capacity)
                        /\ offers' = OffersAfterPromotion(waitlist, offers,
                                  reservation.restaurantId, reservation.reservationDate,
                                  reservation.startTime, reservation.endTime, table.capacity)
                        /\ last' = Replied("cancel", id, 200, "ok", note.mail)

\* ReservationService.confirm with sendNotification left at its default
ConfirmMailed(id, mail) ==
    /\ id \in DOMAIN reservations
    /\ UNCHANGED <<restaurant, tables, recurring, today, cache, waitlist, offers, pc, local>>
    /\ LET note == sendNotification(mail)
       IN  IF reservations[id].status # "pending"
           THEN /\ last' = Replied("confirm", id, 400, "not_pending", "none")
                /\ UNCHANGED reservations
           ELSE /\ reservations' = [reservations EXCEPT ![id].status = "confirmed"]
                /\ last' = IF note.thrown
                           THEN Replied("confirm", id, 500, "notification", note.mail)
                           ELSE Replied("confirm", id, 200, "ok", note.mail)

(***************************************************************************)
(* The notification specification: evening bookings are created,           *)
(* confirmed and cancelled while the restaurant lookup or the transport    *)
(* fails for some of the messages.                                         *)
(***************************************************************************)
MailCreates ==
    [restaurantId : {"r1"}, tableId : {"", "t1"}, partySize : {2}, reservationDate : {1},
     startTime : {<<19, 0>>}, durationMinutes : {90}]

NextMail ==
    \/ \E dto \in MailCreates, mail \in Mail : CreateMailed(dto, mail)
    \/ \E id \in 1..MaxReservations, mail \in Mail : CancelMailed(id, mail)
    \/ \E id \in 1..MaxReservations, mail \in Mail : ConfirmMailed(id, mail)

SpecMail == Init /\ [][NextMail]_vars

\* C12: whatever goes wrong while the message is sent, create answers as its
\* validation decided and a 201 leaves the new reservation stored as
\* pending; cancel on a pending or confirmed reservation answers 200 and
\* leaves it cancelled; confirm on a pending reservation answers 200 and
\* leaves it confirmed.
C12_DeliveryFailureIsSwallowed ==
    [][/\ \A dto \in MailCreates, mail \in Mail :
             CreateMailed(dto, mail) =>
                 /\ \E suitableTables \in
                        findTablesForPartySize(dto.restaurantId, dto.partySize) :
                        last'.code = CreateResult(dto, suitableTables, reservations).code
                 /\ last'.code = 201 =>
                        /\ Len(reservations') = Len(reservations) + 1
                        /\ reservations'[last'.id].status = "pending"
       /\ \A id \in DOMAIN reservations, mail \in Mail :
             CancelMailed(id, mail) =>
                 IF reservations[id].status \in {"pending", "confirmed"}
                 THEN last'.code = 200 /\ reservations'[id].status = "cancelled"
                 ELSE last'.code = 400 /\ reservations' = reservations
       /\ \A id \in DOMAIN reservations, mail \in Mail :
             ConfirmMailed(id, mail) =>
                 IF reservations[id].status = "pending"
                 THEN last'.code = 200 /\ reservations'[id].status = "confirmed"
                 ELSE last'.code = 400 /\ reservations' = reservations]_vars

\* A cancellation whose message could not be sent was answered with 200 and
\* the reservation is cancelled, next to one that was created and is still
\* pending.
C12_Witness ==
    /\ last.op = "cancel"
    /\ last.code = 200
    /\ last.mail = "failed"
    /\ reservations[last.id].status = "cancelled"
    /\ \E i \in DOMAIN reservations : reservations[i].status = "pending"

(***************************************************************************)
(* create and update with the state of the cache server as an input:       *)
(* redisDown says that the Redis calls of this request fail.               *)
(***************************************************************************)
\* catch (error) { console.error('Cache invalidation error:', error) }
propagateCacheError(thrown) == thrown

catchCacheError(thrown) == FALSE

\* CacheService.invalidateAvailability on cache c
tryInvalidateAvailability(c, restaurantId, date, redisDown) ==
    [cache |-> IF redisDown THEN c ELSE invalidateAvailability(c, restaurantId, date),
     thrown |-> catchCacheError(redisDown)]

Effect(code, reason, ledger, c) ==
    [code |-> code, reason |-> reason, ledger |-> ledger, cache |-> c]

\* ReservationService.create run on ledger and cache c
createOutcome(dto, suitableTables, ledger, c, redisDown) ==
    LET res == CreateResult(dto, suitableTables, ledger)
        saved == Append(ledger, NewReservation(dto, res.tableId))
        inv == tryInvalidateAvailability(c, dto.restaurantId, dto.reservationDate, redisDown)
    IN  IF res.code # 201 THEN Effect(res.code, res.reason, ledger, c)
        ELSE IF inv.thrown THEN Effect(500, "cache", saved, inv.cache)
        ELSE Effect(201, "ok", saved, inv.cache)

\* ReservationService.update run on ledger and cache c
updateOutcome(id, dto, ledger, c, redisDown) ==
    LET res == UpdateResult(id, ledger[id], dto, ledger)
        row == Assigned(ledger[id], dto)
        saved == [ledger EXCEPT ![id] = row]
        inv == tryInvalidateAvailability(c, row.restaurantId,
                   IF dto.reservationDate # 0 THEN dto.reservationDate
                   ELSE row.reservationDate, redisDown)
        inv2 == IF dto.reservationDate # 0 /\ dto.reservationDate # row.reservationDate
                THEN tryInvalidateAvailability(inv.cache, row.restaurantId,
                                               row.reservationDate, redisDown)
                ELSE [cache |-> inv.cache, thrown |-> FALSE]
    IN  IF res.code # 200 THEN Effect(res.code, res.reason, ledger, c)
        ELSE IF inv.thrown \/ inv2.thrown THEN Effect(500, "cache", saved, inv2.cache)
        ELSE Effect(200, "ok", saved, inv2.cache)

\* The answer together with the request it answers.
Requested(op, id, code, reason, dto, redisDown) ==
    [op |-> op, id |-> id, code |-> code, reason |-> reason, dto |-> dto,
     redisDown |-> redisDown]

CreateCached(dto, redisDown) ==
    \E suitableTables \in findTablesForPartySize(dto.restaurantId, dto.partySize) :
        LET out == createOutcome(dto, suitableTables, reservations, cache, redisDown)
        IN  /\ Len(out.ledger) <= MaxReservations
            /\ reservations' = out.ledger
            /\ cache' = out.cache
            /\ last' = Requested("create", IF Len(out.ledger) > Len(reservations)
                                           THEN Len(out.ledger) ELSE 0,
                                 out.code, out.reason, dto, redisDown)
            /\ UNCHANGED <<restaurant, tables, recurring, today, waitlist, offers, pc, local>>

UpdateCached(id, dto, redisDown) ==
    /\ id \in DOMAIN reservations
    /\ LET out == updateOutcome(id, dto, reservations, cache, redisDown)
       IN  /\ reservations' = out.ledger
           /\ cache' = out.cache
           /\ last' = Requested("update", id, out.code, out.reason, dto, redisDown)
    /\ UNCHANGED <<restaurant, tables, recurring, today, waitlist, offers, pc, local>>

(***************************************************************************)
(* The independence specification: evening bookings are made and moved     *)
(* while availability is queried and the cache server comes and goes.      *)
(***************************************************************************)
IndepCreates ==
    [restaurantId : {"r1"}, tableId : {"", "t1"}, partySize : {2}, reservationDate : {1},
     startTime : {<<19, 0>>}, durationMinutes : {90}]

IndepUpdates ==
    [tableId : {"t2"}, partySize : {0}, reservationDate : {0}, startTime : {NoTime},
     durationMinutes : {0}]

IndepQueries == [restaurantId : {"r1"}, date : {1}, partySize : {2}, durationMinutes : {90}]

NextIndep ==
    \/ \E dto \in IndepCreates, redisDown \in BOOLEAN : CreateCached(dto, redisDown)
    \/ \E id \in 1..MaxReservations, dto \in IndepUpdates, redisDown \in BOOLEAN :
          UpdateCached(id, dto, redisDown)
    \/ \E q \in IndepQueries :
          GetAvailability(q.restaurantId, q.date, q.partySize, q.durationMinutes)

SpecIndep == Init /\ [][NextIndep]_vars

\* Cache contents a second run may start from: none, the present ones, and
\* an entry that says no table is free.
OtherCaches ==
    {<<>>, cache, [k \in {getAvailabilityKey("r1", 1, 2, 90)} |-> EmptyAvailability]}

\* C13: the answer and the resulting ledger of every create and update are
\* those of a run from the same ledger with any other cache contents and
\* with the cache server up or down.
C13_CacheDoesNotDecide ==
    [][/\ last'.op = "create" =>
             \A c \in OtherCaches, down \in BOOLEAN :
                 \E suitableTables \in
                        findTablesForPartySize(last'.dto.restaurantId, last'.dto.partySize) :
                     LET other == createOutcome(last'.dto, suitableTables, reservations,
                                                c, down)
                     IN  /\ last'.code = other.code
                         /\ last'.reason = other.reason
                         /\ reservations' = other.ledger
       /\ last'.op = "update" =>
             \A c \in OtherCaches, down \in BOOLEAN :
                 LET other == updateOutcome(last'.id, last'.dto, reservations, c, down)
                 IN  /\ last'.code = other.code
                     /\ last'.reason = other.reason
                     /\ reservations' = other.ledger]_vars

\* A create was answered 201 while the cache server was down, and the cache
\* still lists the table it took as free at the booked time.
C13_Witness ==
    /\ last.op = "create"
    /\ last.code = 201
    /\ last.redisDown
    /\ reservations[last.id].startTime = <<19, 0>>
    /\ \E k \in DOMAIN cache :
          \E n \in DOMAIN cache[k].availableSlots :
              /\ cache[k].availableSlots[n].startTime = <<19, 0>>
              /\ \E m \in DOMAIN cache[k].availableSlots[n].availableTables :
                    cache[k].availableSlots[n].availableTables[m]
                        = reservations[last.id].tableId

(***************************************************************************)
(* The slot specification: tables are booked early and late in the evening *)
(* and released again, and the evening's availability is queried.          *)
(***************************************************************************)
SlotCreates ==
    [restaurantId : {"r1"}, tableId : {"", "t1"}, partySize : {2}, reservationDate : {1},
     startTime : {<<19, 0>>, <<23, 0>>}, durationMinutes : {90}]

SlotQueries == [restaurantId : {"r1"}, date : {1}, partySize : {2, 4}, durationMinutes : {90}]

NextSlots ==
    \/ \E dto \in SlotCreates : Create(dto)
    \/ \E id \in 1..MaxReservations : Cancel(id)
    \/ \E q \in SlotQueries :
          GetAvailability(q.restaurantId, q.date, q.partySize, q.durationMinutes)

SpecSlots == Init /\ [][NextSlots]_vars

\* The starts of the slots of the queried evening, in minutes from 00:00 of
\* the date: every 30 minutes from opening while the slot ends by closing.
SlotGrid(durationMinutes) ==
    LET open == toMinutes(restaurant.openingTime)
        close == toMinutes(restaurant.closingTime)
        adjustedClose == IF close < open THEN close + 1440 ELSE close
    IN  {a \in open..adjustedClose :
            /\ (a - open) % SlotInterval = 0
            /\ a + durationMinutes <= adjustedClose}

\* The eligible tables with no active reservation on the date that occupies
\* a minute of the slot starting at minute a.
FreeInSlot(restaurantId, date, partySize, durationMinutes, a) ==
    {t \in EligibleTables(restaurantId, partySize) :
        ~ \E i \in DOMAIN reservations :
            /\ reservations[i].tableId = t
            /\ reservations[i].reservationDate = date
            /\ reservations[i].status \in ActiveStatuses
            /\ OccupiedFrom(reservations[i]) < a + durationMinutes
            /\ a < OccupiedUntil(reservations[i])}

\* C14: an availability answer computed after a cache miss holds, in order,
\* one slot for every slot of the 30-minute grid with a free eligible table,
\* and lists for it exactly the free eligible tables.
C14_SlotsListFreeTables ==
    (last.op = "availability" /\ last.reason \in {"computed", "no_tables"}) =>
        LET restaurantId == last.key[1]
            date == last.key[2]
            partySize == last.key[3]
            durationMinutes == last.key[4]
            slots == last.result.availableSlots
            open == {a \in SlotGrid(durationMinutes) :
                        FreeInSlot(restaurantId, date, partySize, durationMinutes, a) # {}}
        IN  /\ Len(slots) = Cardinality(open)
            /\ \A n \in DOMAIN slots :
                  \E a \in open :
                      /\ slots[n].startTime = toTimeString(a)
                      /\ slots[n].endTime = toTimeString(a + durationMinutes)
                      /\ Cardinality({b \in open : b < a}) = n - 1
                      /\ {slots[n].availableTables[m] :
                              m \in DOMAIN slots[n].availableTables}
                            = FreeInSlot(restaurantId, date, partySize, durationMinutes, a)

(***************************************************************************)
(* The waitlist routes that act on one entry                               *)
(***************************************************************************)
\* POST /waitlist/:id/notify with a complete slot in the body.
NotifyAvailability(id) ==
    /\ id \in DOMAIN waitlist
    /\ UNCHANGED <<restaurant, tables, recurring, today, reservations, cache, pc, local>>
    /\ IF ~canBeNotified(waitlist[id])
       THEN /\ last' = Done("waitlist_notify", id, 400, "cannot_be_notified")
            /\ UNCHANGED <<waitlist, offers>>
       ELSE /\ offers' = [offers EXCEPT ![id] = @ + 1]
            /\ waitlist' = [waitlist EXCEPT ![id] = Notified(waitlist[id])]
            /\ last' = Done("waitlist_notify", id, 200, "ok")

WaitlistCancel(id) ==
    /\ id \in DOMAIN waitlist
    /\ UNCHANGED <<restaurant, tables, recurring, today, reservations, cache, offers, pc, local>>
    /\ IF ~isValid(waitlist[id])
       THEN /\ last' = Done("waitlist_cancel", id, 400, "not_valid")
            /\ UNCHANGED waitlist
       ELSE /\ waitlist' = [waitlist EXCEPT ![id].status = "cancelled"]
            /\ last' = Done("waitlist_cancel", id, 200, "ok")

ConvertToReservation(id, reservationId) ==
    /\ id \in DOMAIN waitlist
    /\ UNCHANGED <<restaurant, tables, recurring, today, reservations, cache, offers, pc, local>>
    /\ waitlist' = [waitlist EXCEPT ![id].status = "seated",
                                    ![id].convertedReservationId = reservationId]
    /\ last' = Done("waitlist_convert", id, 200, "ok")

(***************************************************************************)
(* The entry specification: parties of two queue for a lunch table, are    *)
(* offered one by staff or by a cancellation, let the offer lapse or leave. *)
(***************************************************************************)
EntryRequests ==
    [restaurantId : {"r1"}, partySize : {2}, requestedDate : {1},
     preferredStartTime : {<<11, 0>>}, preferredEndTime : {<<15, 0>>}]

EntryCreates ==
    [restaurantId : {"r1"}, tableId : {"t1"}, partySize : {2}, reservationDate : {1},
     startTime : {<<12, 0>>}, durationMinutes : {90}]

NextEntries ==
    \/ \E dto \in EntryCreates : Create(dto)
    \/ \E id \in 1..MaxReservations : Cancel(id)
    \/ \E dto \in EntryRequests : WaitlistCreate(dto)
    \/ \E id \in 1..MaxWaitlist : NotifyAvailability(id)
    \/ \E id \in 1..MaxWaitlist : MarkAsExpired(id)
    \/ \E id \in 1..MaxWaitlist : WaitlistCancel(id)

SpecEntries == Init /\ [][NextEntries]_vars

OpeningTimes == {<<10, 0>>, <<17, 30>>, <<22, 0>>, <<23, 30>>}

ClosingTimes == {<<12, 0>>, <<22, 0>>, <<0, 0>>, <<2, 0>>}

SlotDurations == {30, 60, 90}

SlotIntervals == {15, 30, 60}

InitHours ==
    /\ restaurant \in [id : {"r1"}, openingTime : OpeningTimes, closingTime : ClosingTimes,
                       isActive : {TRUE}, totalTables : {3}]
    /\ tables = Catalog
    /\ reservations = <<>>
    /\ cache = <<>>
    /\ waitlist = <<>>
    /\ offers = [i \in 1..MaxWaitlist |-> 0]
    /\ last = Done("none", 0, 0, "")
    /\ pc = [p \in Procs |-> "idle"]
    /\ local = [p \in Procs |-> NoLocal]
    /\ recurring = <<>>
    /\ today = 1

GenerateTimeSlots(durationMinutes, intervalMinutes) ==
    /\ last' = [op |-> "slots", id |-> 0, code |-> 200, reason |-> "",
                durationMinutes |-> durationMinutes, intervalMinutes |-> intervalMinutes,
                slots |-> generateTimeSlots(restaurant.openingTime, restaurant.closingTime,
                                            durationMinutes, intervalMinutes)]
    /\ UNCHANGED <<restaurant, tables, recurring, today, reservations, cache, waitlist,
                   offers, pc, local>>

NextHours ==
    \E durationMinutes \in SlotDurations, intervalMinutes \in SlotIntervals :
        GenerateTimeSlots(durationMinutes, intervalMinutes)

SpecHours == InitHours /\ [][NextHours]_vars

\* The slots the rule names: one for each k = 0, 1, 2, ... with
\* open + k*interval + duration <= adjustedClose, in order of k.
SlotsByRule(open, close, duration, interval) ==
    LET o == open[1] * 60 + open[2]
        c == close[1] * 60 + close[2]
        adjustedClose == IF c < o THEN c + 1440 ELSE c
        ks == {k \in 0..(2880 \div interval) : o + k * interval + duration <= adjustedClose}
        hhmm(minutes) == <<(minutes \div 60) % 24, minutes % 60>>
    IN  [n \in 1..Cardinality(ks) |->
            [startTime |-> hhmm(o + (n - 1) * interval),
             endTime |-> hhmm(o + (n - 1) * interval + duration)]]

\* C16: the generated slots are exactly those of the rule, in order, with
\* times printed modulo 24 hours; opening 10:00, closing 12:00, duration 60
\* and stride 30 give (10:00,11:00), (10:30,11:30), (11:00,12:00).
C16_SlotsFollowTheRule ==
    /\ last.op = "slots" =>
          last.slots = SlotsByRule(restaurant.openingTime, restaurant.closingTime,
                                   last.durationMinutes, last.intervalMinutes)
    /\ generateTimeSlots(<<10, 0>>, <<12, 0>>, 60, 30)
          = <<[startTime |-> <<10, 0>>, endTime |-> <<11, 0>>],
              [startTime |-> <<10, 30>>, endTime |-> <<11, 30>>],
              [startTime |-> <<11, 0>>, endTime |-> <<12, 0>>]>>

\* A restaurant open from 22:00 to 02:00 asked for hour-long slots every half
\* hour: seven slots, the fourth from 23:30 to 00:30, the last ending at 02:00.
C16_Witness ==
    /\ last.op = "slots"
    /\ restaurant.openingTime = <<22, 0>>
    /\ restaurant.closingTime = <<2, 0>>
    /\ last.durationMinutes = 60
    /\ last.intervalMinutes = 30
    /\ Len(last.slots) = 7
    /\ last.slots[4] = [startTime |-> <<23, 30>>, endTime |-> <<0, 30>>]
    /\ last.slots[7] = [startTime |-> <<1, 0>>, endTime |-> <<2, 0>>]

(***************************************************************************)
(* The rebooking specification: evening bookings are moved between two     *)
(* dates while the availability of both dates is queried.                  *)
(***************************************************************************)
MoveCreates ==
    [restaurantId : {"r1"}, tableId : {"", "t1"}, partySize : {2}, reservationDate : {1, 2},
     startTime : {<<19, 0>>}, durationMinutes : {90}]

MoveUpdates ==
    [tableId : {""}, partySize : {0}, reservationDate : {1, 2}, startTime : {NoTime},
     durationMinutes : {0}]

MoveQueries == [restaurantId : {"r1"}, date : {1, 2}, partySize : {2}, durationMinutes : {90}]

NextMove ==
    \/ \E dto \in MoveCreates : Create(dto)
    \/ \E id \in 1..MaxReservations, dto \in MoveUpdates : Update(id, dto)
    \/ \E q \in MoveQueries :
          GetAvailability(q.restaurantId, q.date, q.partySize, q.durationMinutes)

SpecMove == Init /\ [][NextMove]_vars

\* C17: after an update that moved a reservation to another date, the cache
\* holds no availability entry of the restaurant for the old or the new date.
C17_BothDatesInvalidated ==
    [][(/\ last'.op = "update"
        /\ last'.code = 200
        /\ last'.id \in DOMAIN reservations
        /\ reservations'[last'.id].reservationDate # reservations[last'.id].reservationDate)
       => \A k \in DOMAIN cache' :
              ~ (/\ k[1] = reservations[last'.id].restaurantId
                 /\ k[2] \in {reservations[last'.id].reservationDate,
                              reservations'[last'.id].reservationDate})]_vars

(***************************************************************************)
(* Properties of the cache specification for parties no table can take     *)
(***************************************************************************)
\* C18: an availability answer given because no active table fits the party
\* has no slots and no suggested tables and is in the cache under the key
\* of the query.
C18_EmptyAnswerIsCached ==
    (last.op = "availability" /\ last.reason = "no_tables") =>
        /\ last.result.availableSlots = <<>>
        /\ last.result.suggestedTables = <<>>
        /\ last.key \in DOMAIN cache
        /\ cache[last.key] = last.result

(***************************************************************************)
(* The seating specification: queued parties are offered a table, lapse,   *)
(* leave, or are seated against a reservation.                             *)
(***************************************************************************)
NextSeating ==
    \/ \E dto \in EntryRequests : WaitlistCreate(dto)
    \/ \E id \in 1..MaxWaitlist : NotifyAvailability(id)
    \/ \E id \in 1..MaxWaitlist : MarkAsExpired(id)
    \/ \E id \in 1..MaxWaitlist : WaitlistCancel(id)
    \/ \E id \in 1..MaxWaitlist, reservationId \in 1..MaxReservations :
          ConvertToReservation(id, reservationId)

SpecSeating == Init /\ [][NextSeating]_vars

\* C19: a conversion changes an entry only if the entry was waiting or
\* notified; expired, cancelled and seated entries stay as they are.
C19_ConvertsOnlyValidEntries ==
    [][last'.op = "waitlist_convert" =>
          \A i \in DOMAIN waitlist :
              waitlist'[i] # waitlist[i] => waitlist[i].status \in {"waiting", "notified"}]_vars

(***************************************************************************)
(* The series specification: daily and weekly lunch series starting on     *)
(* day 2 are created, paused and resumed while the scheduled job runs and   *)
(* the days pass.                                                          *)
(***************************************************************************)
SeriesRequests ==
    [restaurantId : {"r1"}, tableId : {""}, partySize : {2},
     recurrencePattern : {"daily", "weekly"}, dayOfWeek : {2}, dayOfMonth : {0},
     startTime : {<<12, 0>>}, durationMinutes : {90},
     startDate : {2}, endDate : {0, 2, 3}, maxOccurrences : {0, 2}]

NextSeries ==
    \/ \E data \in SeriesRequests : RecurringCreate(data)
    \/ ProcessScheduledOccurrences
    \/ \E id \in 1..MaxSeries : Pause(id)
    \/ \E id \in 1..MaxSeries : Resume(id)
    \/ NextDay

SpecSeries == Init /\ [][NextSeries]_vars

\* The dates of the occurrences made for a series, in the order they were made.
OccurrenceDates(rec, ledger) ==
    [k \in DOMAIN rec.reservations |-> ledger[rec.reservations[k]].reservationDate]

\* C20: after every step, a series' next occurrence date, when it has one,
\* is not before its start date; a step that replaces one next occurrence
\* date by another replaces it by a later one; and the occurrences made for
\* the series fall on strictly increasing dates.
C20_SeriesDatesAdvance ==
    [][\A n \in DOMAIN recurring' :
          /\ recurring'[n].nextOccurrenceDate # 0
                 => recurring'[n].nextOccurrenceDate >= recurring'[n].startDate
          /\ (/\ n \in DOMAIN recurring
              /\ recurring[n].nextOccurrenceDate # 0
              /\ recurring'[n].nextOccurrenceDate # 0
              /\ recurring'[n].nextOccurrenceDate # recurring[n].nextOccurrenceDate)
                 => recurring'[n].nextOccurrenceDate > recurring[n].nextOccurrenceDate
          /\ LET dates == OccurrenceDates(recurring'[n], reservations')
             IN  \A j, k \in DOMAIN dates : j < k => dates[j] < dates[k]]_vars

(***************************************************************************)
(* The skip specification: lunch on day 2 is booked on the smallest table  *)
(* and series that name that table are created and processed.              *)
(***************************************************************************)
SkipSeries ==
    [restaurantId : {"r1"}, tableId : {"t1"}, partySize : {2},
     recurrencePattern : {"daily", "weekly"}, dayOfWeek : {2}, dayOfMonth : {0},
     startTime : {<<12, 0>>}, durationMinutes : {90},
     startDate : {2}, endDate : {0, 2, 3}, maxOccurrences : {0, 2}]

NextSkip ==
    \/ \E dto \in ReleaseCreates : Create(dto)
    \/ \E id \in 1..MaxReservations : Cancel(id)
    \/ \E data \in SkipSeries : RecurringCreate(data)
    \/ ProcessScheduledOccurrences

SpecSkip == Init /\ [][NextSkip]_vars

\* The number of days between two occurrences of a series.
PatternStep(rec) ==
    CASE rec.recurrencePattern = "daily" -> 1
      [] rec.recurrencePattern = "weekly" -> 7
      [] rec.recurrencePattern = "biweekly" -> 14

\* C21: when the first booking of a new series fails, the series is stored
\* without error and without a reservation, with no occurrence counted, no
\* last occurrence date, status active, and its next occurrence date one
\* pattern step after the date that was skipped.
C21_FailedBookingSkipsOneStep ==
    [][(/\ last'.op = "recurring_create"
        /\ last'.code = 201
        /\ reservations' = reservations)
       => LET rec == recurring'[last'.id]
              skipped == getNextOccurrenceDate(
                             [rec EXCEPT !.nextOccurrenceDate = rec.startDate], today)
          IN  skipped # 0 =>
                  /\ rec.occurrencesCreated = 0
                  /\ rec.lastOccurrenceDate = 0
                  /\ rec.status = "active"
                  /\ rec.nextOccurrenceDate = skipped + PatternStep(rec)]_vars

(***************************************************************************)
(* The monthly specification: on a day of January, February or March,     *)
(* series for the 15th, 29th, 30th or 31st of each month are created and   *)
(* processed.                                                              *)
(***************************************************************************)
MonthlyToday == {1, 15, 16, 31, 32, 59, 60}

\* Series that start on their day of the month.
MonthlySeries ==
    {data \in [restaurantId : {"r1"}, tableId : {""}, partySize : {2},
               recurrencePattern : {"monthly"}, dayOfWeek : {-1},
               dayOfMonth : {15, 29, 30, 31},
               startTime : {<<12, 0>>}, durationMinutes : {90},
               startDate : {15, 29, 30, 31}, endDate : {0}, maxOccurrences : {0, 2}] :
        data.startDate = data.dayOfMonth}

InitMonthly ==
    /\ restaurant \in {DayRestaurant, NightRestaurant}
    /\ tables = Catalog
    /\ reservations = <<>>
    /\ cache = <<>>
    /\ waitlist = <<>>
    /\ offers = [i \in 1..MaxWaitlist |-> 0]
    /\ last = Done("none", 0, 0, "")
    /\ pc = [p \in Procs |-> "idle"]
    /\ local = [p \in Procs |-> NoLocal]
    /\ recurring = <<>>
    /\ today \in MonthlyToday

NextMonthly ==
    \/ \E data \in MonthlySeries : RecurringCreate(data)
    \/ ProcessScheduledOccurrences

SpecMonthly == InitMonthly /\ [][NextMonthly]_vars

\* The date in the month after the month of date whose day is dayOfMonth,
\* or the last day of that month when it has fewer days.
FollowingMonth(date, dayOfMonth) ==
    LET month == getMonth(date) + 1
    IN  MonthStart(month)
            + (IF dayOfMonth < DaysInMonth(month) THEN dayOfMonth ELSE DaysInMonth(month))

\* The first date after fromDate reached from date month by month.
RECURSIVE FirstAfter(_, _, _)
FirstAfter(date, fromDate, dayOfMonth) ==
    IF date <= fromDate THEN FirstAfter(FollowingMonth(date, dayOfMonth), fromDate, dayOfMonth)
    ELSE date

\* C22: the next occurrence date of a monthly series lies in the month right
\* after the month of its last occurrence, on the series' day of the month or
\* on that month's last day when the month is shorter; the first occurrence
\* is the first such date after today, counted month by month from the
\* start date.
C22_MonthlyStepsOneMonth ==
    \A n \in DOMAIN recurring :
        LET rec == recurring[n]
        IN  rec.recurrencePattern = "monthly" =>
                /\ (rec.lastOccurrenceDate # 0 /\ rec.nextOccurrenceDate # 0)
                       => rec.nextOccurrenceDate
                              = FollowingMonth(rec.lastOccurrenceDate, rec.dayOfMonth)
                /\ Len(rec.reservations) >= 1
                       => reservations[rec.reservations[1]].reservationDate
                              = FirstAfter(rec.startDate, today, rec.dayOfMonth)

(***************************************************************************)
(* The series-cancel specification: a daily series of two lunches is       *)
(* created on t1 beside single bookings of t3 for day 2;                   *)
(* reservations are confirmed                                              *)
(* and seated, days pass, and the series is cancelled with its             *)
(* reservations.                                                           *)
(***************************************************************************)
CancelSeries ==
    [restaurantId : {"r1"}, tableId : {"t1"}, partySize : {2},
     recurrencePattern : {"daily"}, dayOfWeek : {-1}, dayOfMonth : {0},
     startTime : {<<12, 0>>}, durationMinutes : {90},
     startDate : {1}, endDate : {0}, maxOccurrences : {2}]

CancelSeriesCreates ==
    [restaurantId : {"r1"}, tableId : {"t3"}, partySize : {2}, reservationDate : {2},
     startTime : {<<12, 0>>}, durationMinutes : {90}]

NextCancelSeries ==
    \/ \E dto \in CancelSeriesCreates : Create(dto)
    \/ \E data \in CancelSeries : RecurringCreate(data)
    \/ ProcessScheduledOccurrences
    \/ \E id \in 1..MaxReservations : Confirm(id)
    \/ \E id \in 1..MaxReservations : MarkAsSeated(id)
    \/ \E id \in 1..MaxSeries : RecurringCancel(id, TRUE)
    \/ NextDay

SpecCancelSeries == Init /\ [][NextCancelSeries]_vars

\* The reservations linked to series id.
LinkedTo(id) == {recurring[id].reservations[k] : k \in DOMAIN recurring[id].reservations}

\* The reservations that a cancel of series id must leave as they are: the
\* linked ones dated before today and the ones that are not linked to it.
Untouched(id) ==
    \A i \in DOMAIN reservations :
        (i \notin LinkedTo(id) \/ reservations[i].reservationDate < today)
            => reservations'[i] = reservations[i]

CapSeries ==
    [restaurantId : {"r1"}, tableId : {"t1"}, partySize : {2},
     recurrencePattern : {"daily"}, dayOfWeek : {-1}, dayOfMonth : {0},
     startTime : {<<12, 0>>}, durationMinutes : {90},
     startDate : {1}, endDate : {0}, maxOccurrences : {1, 2}]

CapUpdates ==
    [partySize : {0}, startTime : {NoTime}, durationMinutes : {0}, endDate : {0, 9},
     maxOccurrences : {0, 1, 2}]

NextCap ==
    \/ \E data \in CapSeries : RecurringCreate(data)
    \/ ProcessScheduledOccurrences
    \/ \E id \in 1..MaxSeries : Pause(id)
    \/ \E id \in 1..MaxSeries : Resume(id)
    \/ \E id \in 1..MaxSeries, data \in CapUpdates : RecurringUpdate(id, data)
    \/ NextDay

SpecCap == Init /\ [][NextCap]_vars

\* C24: after every step, a series with maxOccurrences set has at most
\* maxOccurrences occurrences; a series that had reached its cap before the
\* step has no occurrence more after it; and a series whose count reaches
\* the cap by a materialization in the step is completed after it.
C24_CapIsNeverExceeded ==
    [][\A id \in DOMAIN recurring' :
          LET after == recurring'[id]
              isNew == id \notin DOMAIN recurring
              countBefore == IF isNew THEN 0 ELSE recurring[id].occurrencesCreated
          IN  /\ after.maxOccurrences # 0
                    => after.occurrencesCreated <= after.maxOccurrences
              /\ (/\ ~isNew
                  /\ recurring[id].maxOccurrences # 0
                  /\ recurring[id].occurrencesCreated >= recurring[id].maxOccurrences)
                    => after.occurrencesCreated = countBefore
              /\ (/\ after.occurrencesCreated > countBefore
                  /\ after.maxOccurrences # 0
                  /\ after.occurrencesCreated >= after.maxOccurrences)
                    => after.status = "completed"]_vars

\* C25: in every state the stored series can be in, processScheduledOccurrences
\* returns: for whatever order the store lists the tables in, the loop over
\* each active series comes to an end.
C25_ScheduledJobTerminates ==
    \A orders \in TableOrders(recurring) :
        ProcessFrom(1, recurring, reservations, cache, orders).returns

\* The end of a stored window in real time, in minutes from 00:00 of its
\* date: an end that is numerically before the start is on the next day.
RealEnd(r) ==
    IF toMinutes(r.endTime) < toMinutes(r.startTime)
    THEN toMinutes(r.endTime) + 24 * 60
    ELSE toMinutes(r.endTime)

\* C26: no create or update succeeds in placing a window on a table and date
\* where a stored pending, confirmed or seated reservation whose end wrapped
\* past midnight intersects it in real time.
C26_WrappedReservationBlocks ==
    [][\A i \in DOMAIN reservations', j \in DOMAIN reservations :
          (/\ last'.op \in {"create", "update"}
           /\ last'.code \in {200, 201}
           /\ i # j
           /\ i \notin DOMAIN reservations \/ reservations'[i] # reservations[i]
           /\ reservations[j].status \in ActiveStatuses
           /\ toMinutes(reservations[j].endTime) < toMinutes(reservations[j].startTime)
           /\ reservations'[i].tableId = reservations[j].tableId
           /\ reservations'[i].reservationDate = reservations[j].reservationDate)
            => ~(/\ toMinutes(reservations'[i].startTime) < RealEnd(reservations[j])
                 /\ toMinutes(reservations[j].startTime) < RealEnd(reservations'[i]))]_vars

(***************************************************************************)
(* The party-size specification: parties of 1, 2 or 4 book lunch on an     *)
(* assigned table, on t1 (1 to 2 seats) or on t2 (2 to 4 seats);           *)
(* reservations are confirmed and updated with a new party size, a new     *)
(* table, or both.                                                         *)
(***************************************************************************)
PartyCreates ==
    [restaurantId : {"r1"}, tableId : {"", "t1", "t2"}, partySize : {1, 2, 4},
     reservationDate : {1}, startTime : {<<12, 0>>}, durationMinutes : {90}]

PartyUpdates ==
    [tableId : {"", "t2"}, partySize : {0, 1, 4}, reservationDate : {0},
     startTime : {NoTime}, durationMinutes : {0}]

NextParty ==
    \/ \E dto \in PartyCreates : Create(dto)
    \/ \E id \in 1..MaxReservations, dto \in PartyUpdates : Update(id, dto)
    \/ \E id \in 1..MaxReservations : Confirm(id)

SpecParty == Init /\ [][NextParty]_vars

\* C27: every pending or confirmed reservation has a party size between the
\* minimum capacity and the capacity of its table.
C27_PartyFitsTable ==
    \A i \in DOMAIN reservations :
        reservations[i].status \in {"pending", "confirmed"}
            => /\ tables[reservations[i].tableId].minCapacity <= reservations[i].partySize
               /\ reservations[i].partySize <= tables[reservations[i].tableId].capacity

(***************************************************************************)
(* The tables specification: tables are taken out of service while parties *)
(* of two book dinner on an assigned table, on t1 or on t4, which is out   *)
(* of service from the start; bookings are cancelled.                      *)
(***************************************************************************)
TableCreates ==
    [restaurantId : {"r1"}, tableId : {"", "t1", "t4"}, partySize : {2},
     reservationDate : {1}, startTime : {<<19, 0>>, <<20, 30>>}, durationMinutes : {90}]

NextTables ==
    \/ \E dto \in TableCreates : Create(dto)
    \/ \E id \in {"t1", "t2", "t3"} : Deactivate(id)
    \/ \E id \in 1..MaxReservations : Cancel(id)

SpecTables == Init /\ [][NextTables]_vars

\* C28: in every step in which create stores a reservation, the table of the
\* stored reservation is active when create is called.
C28_CreateUsesActiveTable ==
    [][(last'.op = "create" /\ last'.code = 201)
          => tables[reservations'[Len(reservations')].tableId].isActive]_vars

(***************************************************************************)
(* The bookable-slots specification: availability for a party of two is    *)
(* asked for visits of 90 and of 120 minutes while dinners are booked and  *)
(* cancelled.                                                              *)
(***************************************************************************)
BookableCreates ==
    [restaurantId : {"r1"}, tableId : {"", "t1"}, partySize : {2}, reservationDate : {1},
     startTime : {<<19, 0>>, <<21, 0>>}, durationMinutes : {90}]

BookableQueries ==
    [restaurantId : {"r1"}, date : {1}, partySize : {2}, durationMinutes : {90, 120}]

NextBookable ==
    \/ \E dto \in BookableCreates : Create(dto)
    \/ \E id \in 1..MaxReservations : Cancel(id)
    \/ \E q \in BookableQueries :
          GetAvailability(q.restaurantId, q.date, q.partySize, q.durationMinutes)

SpecBookable == Init /\ [][NextBookable]_vars

\* C29: when getAvailability has just computed its answer, the restaurant
\* being active, create accepts every listed table at the start of its slot,
\* for the date, party size and duration of the query.
C29_ListedSlotsAreBookable ==
    (last.op = "availability" /\ last.reason = "computed" /\ restaurant.isActive)
        => \A n \in DOMAIN last.result.availableSlots :
              LET slot == last.result.availableSlots[n]
              IN  \A k \in DOMAIN slot.availableTables :
                      CreateResult([restaurantId |-> last.key[1],
                                    tableId |-> slot.availableTables[k],
                                    partySize |-> last.key[3],
                                    reservationDate |-> last.key[2],
                                    startTime |-> slot.startTime,
                                    durationMinutes |-> last.key[4]],
                                   <<>>, reservations).code = 201

(***************************************************************************)
(* getAvailability in two steps: the cache lookup, the table query and the *)
(* read of the date's reservations; then, after the slots are built from   *)
(* what was read, the cache write.                                         *)
(***************************************************************************)
\* getAvailability up to reservationRepository.find
AvailabilityRead(p, restaurantId, date, partySize, durationMinutes) ==
    LET key == getAvailabilityKey(restaurantId, date, partySize, durationMinutes)
    IN  /\ pc[p] = "idle"
        /\ \E suitableTables \in findTablesForPartySize(restaurantId, partySize) :
              LET result == ComputeAvailability(restaurant, suitableTables, reservations,
                                                restaurantId, date, partySize, durationMinutes)
              IN  IF key \in DOMAIN cache
                  THEN /\ last' = Answered(key, "cached", cache[key])
                       /\ UNCHANGED <<pc, local>>
                  ELSE IF Len(suitableTables) = 0
                  THEN /\ last' = Answered(key, "no_tables", EmptyAvailability)
                       /\ UNCHANGED <<pc, local>>
                  ELSE /\ pc' = [pc EXCEPT ![p] = "availability_store"]
                       /\ local' = [local EXCEPT
                                      ![p] = [op |-> "availability", key |-> key,
                                              result |-> result]]
                       /\ UNCHANGED last
        /\ UNCHANGED <<restaurant, tables, recurring, today, reservations, cache, waitlist,
                       offers>>

\* cacheService.setAvailability and the return
AvailabilityStore(p) ==
    /\ pc[p] = "availability_store"
    /\ cache' = setAvailability(cache, local[p].key, local[p].result)
    /\ last' = Answered(local[p].key, "computed", local[p].result)
    /\ pc' = [pc EXCEPT ![p] = "idle"]
    /\ local' = [local EXCEPT ![p] = NoLocal]
    /\ UNCHANGED <<restaurant, tables, recurring, today, reservations, waitlist, offers>>

(***************************************************************************)
(* The concurrent availability specification: two handlers book dinner at  *)
(* 19:00 and ask for the evening's availability, their steps interleaved.  *)
(***************************************************************************)
NextStale ==
    \/ \E p \in Procs, dto \in CacheCreates : CreateCheck(p, dto)
    \/ \E p \in Procs : CreateSave(p)
    \/ \E p \in Procs, q \in CacheQueries :
          AvailabilityRead(p, q.restaurantId, q.date, q.partySize, q.durationMinutes)
    \/ \E p \in Procs : AvailabilityStore(p)

SpecStale == Init /\ [][NextStale]_vars

\* C30: when no handler is in flight, no cached availability answer lists a
\* table for a slot that meets a stored pending, confirmed or seated
\* reservation of that table on the answer's date.
C30_NoStaleAvailability ==
    (\A p \in Procs : pc[p] = "idle")
        => \A key \in DOMAIN cache :
              \A n \in DOMAIN cache[key].availableSlots :
                  LET slot == cache[key].availableSlots[n]
                  IN  \A k \in DOMAIN slot.availableTables :
                          ~\E i \in DOMAIN reservations :
                              /\ reservations[i].restaurantId = key[1]
                              /\ reservations[i].reservationDate = key[2]
                              /\ reservations[i].tableId = slot.availableTables[k]
                              /\ reservations[i].status \in ActiveStatuses
                              /\ timeRangesOverlap(reservations[i].startTime,
                                                   reservations[i].endTime,
                                                   slot.startTime, slot.endTime)

====
